---- MODULE Spec2Model ----
(***************************************************************************)
(* Layered correlation and analysis engine of cloud-nettest-framework      *)
(* (src/src/cnf/tests/layered_correlation.py and the measurement records   *)
(* it consumes) and the performance grader of src/src/cnf/formatter.py.    *)
(*                                                                         *)
(* Python values are modelled as tagged records:                           *)
(*   Absent  - the key is not in the dict                                  *)
(*   None    - the key is present and holds None                           *)
(*   Num(n)  - a number; real quantities (milliseconds, percent) are kept  *)
(*             in fixed point, n units of 1/Scale                          *)
(* dict.get(key, default) is Get(value, default).                          *)
(*                                                                         *)
(* layered_correlation.py line 442 reads `... == "excellent" but ...`; the *)
(* model reads the connective as `and`, the only reading under which the   *)
(* elif has a meaning.                                                     *)
(***************************************************************************)
EXTENDS Integers, Sequences, FiniteSets, TLC

VARIABLES
    pc,                    \* position inside the function being run
    error,                 \* exception that left the function, "none" if none
    ping_result,           \* argument ping_result
    mtr_result,            \* argument mtr_result
    http_result,           \* argument http_result
    packet_analysis,       \* argument packet_analysis
    tcp_http_correlation,  \* argument tcp_http_correlation
    analysis,              \* the analysis dict being built
    http_phases,           \* correlate_tcp_to_http_phases: argument http_phases
    tcp_events,            \* the events _extract_tcp_timeline returned
    processed,             \* number of events the correlation loop has taken
    correlation,           \* the correlation dict being built
    mtr_hops,              \* correlate_mtr_to_tcp: argument mtr_hops
    tcp_handshake_ms,      \* argument tcp_handshake_ms
    scanned,               \* number of hops the contributing-hop loop has taken
    mtr_correlation,       \* the correlation dict correlate_mtr_to_tcp builds
    graded,                \* PerformanceGrader: the latest call and its result
    graded_before,         \* the call before it and its result
    ping_output,           \* parse_ping_output: what the regexes find in output
    ping_stats,            \* the stats dict parse_ping_output builds
    call,                  \* comprehensive tests: the function that was called
    targets,               \* argument targets (one target for a single test)
    concurrent,            \* argument concurrent
    capture_packets,       \* argument capture_packets of every unit
    clock,                 \* the probe host's clock, in seconds
    units,                 \* the comprehensive_target_test calls, by index
    processes,             \* tcpdump processes running on the probe host
    files,                 \* capture files present on the probe host
    completion,            \* indices of the units in the order they returned
    all_results,           \* the list comprehensive_multi_target_test builds
    summary_hops,          \* _generate_mtr_summary: argument hops
    mtr_summary,           \* the summary dict it returns
    metrics_input,         \* _generate_combined_metrics: argument result
    metrics,               \* the metrics dict it returns
    http_target,           \* run_http_tests: the target's retries and expected_status
    http_log,              \* the requests issued and the sleeps taken, in order
    http_test_result       \* test_result, with last_error as its error

\* state of generate_layered_analysis
analysisVars == <<ping_result, mtr_result, http_result, packet_analysis,
                  tcp_http_correlation, analysis>>

\* state of correlate_tcp_to_http_phases
phaseVars == <<http_phases, tcp_events, processed, correlation>>

\* state of correlate_mtr_to_tcp
mtrVars == <<mtr_hops, tcp_handshake_ms, scanned, mtr_correlation>>

\* state of a sequence of PerformanceGrader calls
graderVars == <<graded, graded_before>>

\* state of parse_ping_output
pingVars == <<ping_output, ping_stats>>

\* state of comprehensive_target_test and comprehensive_multi_target_test
unitVars == <<call, targets, concurrent, capture_packets, clock, units,
              processes, files, completion, all_results>>

\* state of _generate_mtr_summary
summaryVars == <<summary_hops, mtr_summary>>

\* state of _generate_combined_metrics
metricsVars == <<metrics_input, metrics>>

\* state of run_http_tests
httpVars == <<http_target, http_log, http_test_result>>

\* the state of the functions modelled further down
laterVars == <<pingVars, unitVars, summaryVars, metricsVars, httpVars>>

vars == <<pc, error, analysisVars, phaseVars, mtrVars, graderVars, laterVars>>

----------------------------------------------------------------------------
(* Bounds of the model *)

\* fixed-point resolution: one unit is 1/Scale ms (or 1/Scale percent)
Scale == 10
\* largest retransmission count recorded for a phase
MaxRetrans == 2
\* longest list of TCP events handed to the phase correlator
MaxEvents == 2
\* longest list of MTR hops handed to the path correlator
MaxHops == 3
\* largest packet count in a ping summary line
MaxPackets == 10
\* targets of one comprehensive_multi_target_test call
MaxTargets == 2
\* seconds that pass on their own during one call
MaxClock == 1
\* problematic hops of an MTR summary, issues of a packet analysis
MaxIssues == 2
\* largest retries setting of an HTTP target
MaxRetries == 3

----------------------------------------------------------------------------
(* Python values *)

Absent == [k |-> "absent", v |-> 0]
None == [k |-> "none", v |-> 0]
Num(n) == [k |-> "num", v |-> n]
IsNum(x) == x.k = "num"

\* dict.get(key, default)
Get(x, default) == IF x.k = "absent" THEN default ELSE x

\* round(num / den) to the nearest integer, ties to even (Python round);
\* den > 0
RoundDiv(num, den) ==
    LET q == num \div den
        r == num % den
    IN  IF 2 * r < den THEN q
        ELSE IF 2 * r > den THEN q + 1
        ELSE IF q % 2 = 0 THEN q ELSE q + 1

----------------------------------------------------------------------------
(* Thresholds of generate_layered_analysis, in ms / percent *)

L3_DEFAULT_AVG_MS == 999
L3_EXCELLENT_AVG_MS == 20
L3_GOOD_LOSS_PCT == 1
L3_GOOD_AVG_MS == 50
L7_DEFAULT_TOTAL_MS == 999
L7_EXCELLENT_TOTAL_MS == 100
L7_GOOD_TOTAL_MS == 500

----------------------------------------------------------------------------
(* Measurement records handed to generate_layered_analysis *)

\* ping_result: None / {} (present = FALSE) or a dict
NoPing ==
    [present |-> FALSE, success |-> FALSE, packet_loss_pct |-> Absent,
     avg_ms |-> Absent, min_ms |-> Absent, max_ms |-> Absent]

LossValues == {Absent, Num(0), Num(Scale \div 2), Num(L3_GOOD_LOSS_PCT * Scale)}

\* avg_ms / min_ms / max_ms come as parse_ping_output leaves them: all three
\* missing (the stats are not at the top level), all three None (no rtt line
\* was found), or all three numbers
RttValues ==
    {[avg_ms |-> Absent, min_ms |-> Absent, max_ms |-> Absent],
     [avg_ms |-> None, min_ms |-> None, max_ms |-> None]}
    \cup {[avg_ms |-> Num(a), min_ms |-> Num(a), max_ms |-> Num(a + Scale)] :
            a \in {0,
                   L3_EXCELLENT_AVG_MS * Scale - 1, L3_EXCELLENT_AVG_MS * Scale,
                   L3_GOOD_AVG_MS * Scale - 1, L3_GOOD_AVG_MS * Scale}}

PingResults ==
    {NoPing}
    \cup {[present |-> TRUE, success |-> FALSE, packet_loss_pct |-> Absent,
           avg_ms |-> Absent, min_ms |-> Absent, max_ms |-> Absent]}
    \cup {[present |-> TRUE, success |-> TRUE, packet_loss_pct |-> l,
           avg_ms |-> r.avg_ms, min_ms |-> r.min_ms, max_ms |-> r.max_ms] :
            l \in LossValues, r \in RttValues}

\* mtr_result: None or a dict with a status and a summary
MtrResults ==
    {[present |-> FALSE, status |-> "unknown", path_quality |-> "unknown"],
     [present |-> TRUE, status |-> "success", path_quality |-> "good"]}

\* packet_analysis: None or a dict with a status and
\* connection_metrics.quality_score ("<absent>": the key is missing)
NoPacketAnalysis == [present |-> FALSE, status |-> "unknown", quality_score |-> "<absent>"]

QualityScores ==
    {"<absent>", "unknown", "excellent", "EXCELLENT", "good", "GOOD", "fair", "poor"}

\* PacketAnalyzer._calculate_quality_score; the rate thresholds 0.1, 1 and 5
\* percent are compared after multiplying through by total
CalculateQualityScore(retrans, dup_acks, ooo, total) ==
    LET issues == retrans + dup_acks + ooo
    IN  IF total = 0 THEN "unknown"
        ELSE IF issues * 1000 < total THEN "excellent"
        ELSE IF issues * 100 < total THEN "good"
        ELSE IF issues * 100 < 5 * total THEN "fair"
        ELSE "poor"

\* scores _analyze_connection_quality can report for small captures
BuiltQualityScores ==
    {CalculateQualityScore(r, d, 0, t) : r \in 0..1, d \in 0..1, t \in {0, 1, 150, 2000}}

PacketAnalyses ==
    {NoPacketAnalysis,
     [present |-> TRUE, status |-> "error", quality_score |-> "<absent>"]}
    \cup {[present |-> TRUE, status |-> "success", quality_score |-> q] :
            q \in QualityScores \cup BuiltQualityScores}

\* http_result.statistics: the "avg" of each entry, Absent when the entry
\* (or its avg) is missing
NoStatistics ==
    [total |-> Absent, total_time |-> Absent, dns_lookup |-> Absent,
     tcp_handshake |-> Absent, tls_handshake |-> Absent,
     server_processing |-> Absent, download |-> Absent,
     content_download |-> Absent]

TotalValues ==
    {Absent, None, Num(0),
     Num(L7_EXCELLENT_TOTAL_MS * Scale - 1), Num(L7_EXCELLENT_TOTAL_MS * Scale),
     Num(L7_GOOD_TOTAL_MS * Scale - 1), Num(L7_GOOD_TOTAL_MS * Scale)}

\* statistics records keyed the way generate_layered_analysis reads them
DirectStatistics ==
    {[NoStatistics EXCEPT !.total = t, !.dns_lookup = d] :
        t \in TotalValues, d \in {Absent, Num(10 * Scale)}}

\* one sample of _detailed_http_get: its timings, in fixed point
HttpSamples ==
    {[total_ms |-> t * Scale, dns_lookup_ms |-> Scale,
      tcp_handshake_ms |-> 2 * Scale, tls_handshake_ms |-> 3 * Scale,
      server_processing_ms |-> 4 * Scale,
      content_download_ms |-> t * Scale - 10 * Scale] : t \in {50, 600}}

RECURSIVE SumSeq(_)
SumSeq(s) == IF s = <<>> THEN 0 ELSE Head(s) + SumSeq(Tail(s))

\* calc_stats(values)["avg"] = round(sum(values) / len(values), 2); the fixed
\* point keeps the nearest unit
CalcStatsAvg(values) ==
    IF values = <<>> THEN Absent
    ELSE Num(RoundDiv(SumSeq(values), Len(values)))

\* _calculate_http_statistics for a non-empty list of successful samples
CalculateHttpStatistics(results) ==
    LET col(f) == [i \in 1..Len(results) |-> results[i][f]]
    IN  [total |-> Absent,
         total_time |-> CalcStatsAvg(col("total_ms")),
         dns_lookup |-> CalcStatsAvg(col("dns_lookup_ms")),
         tcp_handshake |-> CalcStatsAvg(col("tcp_handshake_ms")),
         tls_handshake |-> CalcStatsAvg(col("tls_handshake_ms")),
         server_processing |-> CalcStatsAvg(col("server_processing_ms")),
         download |-> Absent,
         content_download |-> CalcStatsAvg(col("content_download_ms"))]

\* statistics records as comprehensive_http_get builds them
BuiltStatistics ==
    {CalculateHttpStatistics(<<a>>) : a \in HttpSamples}
    \cup {CalculateHttpStatistics(<<a, b>>) : a \in HttpSamples, b \in HttpSamples}

NoHttp == [present |-> FALSE, status |-> "unknown", statistics |-> NoStatistics]

HttpResults ==
    {NoHttp, [present |-> TRUE, status |-> "error", statistics |-> NoStatistics]}
    \cup {[present |-> TRUE, status |-> "success", statistics |-> st] :
            st \in DirectStatistics \cup BuiltStatistics}

\* tcp_http_correlation: None / {} (present = FALSE) or a dict whose
\* retransmissions_by_phase may be missing (has_map = FALSE) and holds a
\* count for tls_negotiation or not (Absent)
NoCorrelation == [present |-> FALSE, has_map |-> FALSE, tls_negotiation |-> Absent]

Correlations ==
    {NoCorrelation,
     [present |-> TRUE, has_map |-> FALSE, tls_negotiation |-> Absent],
     [present |-> TRUE, has_map |-> TRUE, tls_negotiation |-> Absent]}
    \cup {[present |-> TRUE, has_map |-> TRUE, tls_negotiation |-> Num(n)] :
            n \in 0..MaxRetrans}

----------------------------------------------------------------------------
(* generate_layered_analysis: the pieces of each section *)

EmptyDict == [empty |-> TRUE]

\* the analysis dict as the function first builds it
NewAnalysis ==
    [layer3 |-> [icmp_latency |-> EmptyDict, path_analysis |-> EmptyDict,
                 quality |-> "unknown"],
     layer4 |-> [tcp_quality |-> EmptyDict, quality |-> "unknown"],
     layer7 |-> [http_performance |-> EmptyDict, phase_breakdown |-> EmptyDict,
                 quality |-> "unknown"],
     correlations |-> [l3_l4 |-> EmptyDict, l4_l7 |-> EmptyDict,
                       end_to_end |-> EmptyDict],
     insights |-> <<>>,
     overall_grade |-> "unknown"]

\* `if ping_result and ping_result.get("success")`
PingUsable(ping) == ping.present /\ ping.success

\* exception raised while building icmp_latency: max_ms - min_ms needs numbers
IcmpLatencyError(ping) ==
    IF IsNum(Get(ping.max_ms, Num(0))) /\ IsNum(Get(ping.min_ms, Num(0)))
    THEN "none" ELSE "TypeError"

IcmpLatency(ping) ==
    [avg_ms |-> Get(ping.avg_ms, None),
     min_ms |-> Get(ping.min_ms, None),
     max_ms |-> Get(ping.max_ms, None),
     jitter_ms |-> Num(Get(ping.max_ms, Num(0)).v - Get(ping.min_ms, Num(0)).v),
     packet_loss_pct |-> Get(ping.packet_loss_pct, Num(0))]

\* exception raised by the comparisons of the L3 grading chain; `and` stops
\* at the first false operand, None == 0 is False, None < n raises
L3GradeError(ping) ==
    LET loss == Get(ping.packet_loss_pct, Num(0))
        avg == Get(ping.avg_ms, Num(L3_DEFAULT_AVG_MS * Scale))
    IN  IF IsNum(loss) /\ loss.v = 0 /\ ~IsNum(avg) THEN "TypeError"
        ELSE IF IsNum(loss) /\ loss.v = 0 /\ avg.v < L3_EXCELLENT_AVG_MS * Scale
        THEN "none"
        ELSE IF ~IsNum(loss) THEN "TypeError"
        ELSE IF loss.v < L3_GOOD_LOSS_PCT * Scale /\ ~IsNum(avg) THEN "TypeError"
        ELSE "none"

\* L3Quality with the excellent bound made inclusive (avg <= 20)
L3Quality_InclusiveBound(ping) ==
    LET loss == Get(ping.packet_loss_pct, Num(0))
        avg == Get(ping.avg_ms, Num(L3_DEFAULT_AVG_MS * Scale))
    IN  IF loss.v = 0 /\ avg.v <= L3_EXCELLENT_AVG_MS * Scale THEN "excellent"
        ELSE IF loss.v < L3_GOOD_LOSS_PCT * Scale /\ avg.v < L3_GOOD_AVG_MS * Scale
        THEN "good"
        ELSE "degraded"

\* the L3 grading chain, when it raises nothing
L3Quality(ping) ==
    LET loss == Get(ping.packet_loss_pct, Num(0))
        avg == Get(ping.avg_ms, Num(L3_DEFAULT_AVG_MS * Scale))
    IN  IF loss.v = 0 /\ avg.v < L3_EXCELLENT_AVG_MS * Scale THEN "excellent"
        ELSE IF loss.v < L3_GOOD_LOSS_PCT * Scale /\ avg.v < L3_GOOD_AVG_MS * Scale
        THEN "good"
        ELSE "degraded"

\* `if mtr_result and mtr_result.get("status") == "success"`
MtrUsable(mtr) == mtr.present /\ mtr.status = "success"

\* `if packet_analysis and packet_analysis.get("status") == "success"`
PacketAnalysisUsable(pkt) == pkt.present /\ pkt.status = "success"

\* L4Quality that accepts only the lower-case scores
L4Quality_LowerCaseOnly(pkt) ==
    IF pkt.quality_score = "excellent" THEN "excellent"
    ELSE IF pkt.quality_score = "good" THEN "good"
    ELSE "degraded"

\* the L4 grading chain on conn_metrics.get("quality_score", "unknown")
L4Quality(pkt) ==
    LET quality_score ==
            IF pkt.quality_score = "<absent>" THEN "unknown" ELSE pkt.quality_score
    IN  IF quality_score \in {"excellent", "EXCELLENT"} THEN "excellent"
        ELSE IF quality_score \in {"good", "GOOD"} THEN "good"
        ELSE "degraded"

\* `if http_result and http_result.get("status") == "success"`
HttpUsable(http) == http.present /\ http.status = "success"

\* exception raised by x / total: operand types are checked before the divisor
PctError(x, total) ==
    IF ~IsNum(x) \/ ~IsNum(total) THEN "TypeError"
    ELSE IF total.v = 0 THEN "ZeroDivisionError"
    ELSE "none"

\* round(x / total * 100, 1), in tenths of a percent
Pct(x, total) == RoundDiv(1000 * x.v, total.v)

\* stats.get("total", {}).get("avg", 1)
PctDivisor(stats) == Get(stats.total, Num(1 * Scale))

PhaseBreakdownError(stats) ==
    LET errs == <<PctError(Get(stats.dns_lookup, Num(0)), PctDivisor(stats)),
                  PctError(Get(stats.tcp_handshake, Num(0)), PctDivisor(stats)),
                  PctError(Get(stats.tls_handshake, Num(0)), PctDivisor(stats)),
                  PctError(Get(stats.server_processing, Num(0)), PctDivisor(stats)),
                  PctError(Get(stats.download, Num(0)), PctDivisor(stats))>>
        bad == {i \in 1..5 : errs[i] # "none"}
    IN  IF bad = {} THEN "none"
        ELSE errs[CHOOSE i \in bad : \A j \in bad : i <= j]

PhaseBreakdown(stats) ==
    [dns_pct |-> Pct(Get(stats.dns_lookup, Num(0)), PctDivisor(stats)),
     tcp_pct |-> Pct(Get(stats.tcp_handshake, Num(0)), PctDivisor(stats)),
     tls_pct |-> Pct(Get(stats.tls_handshake, Num(0)), PctDivisor(stats)),
     server_pct |-> Pct(Get(stats.server_processing, Num(0)), PctDivisor(stats)),
     download_pct |-> Pct(Get(stats.download, Num(0)), PctDivisor(stats))]

HttpPerformance(stats) ==
    [total_time_ms |-> Get(stats.total, None),
     dns_ms |-> Get(stats.dns_lookup, None),
     tcp_handshake_ms |-> Get(stats.tcp_handshake, None),
     tls_handshake_ms |-> Get(stats.tls_handshake, None),
     ttfb_ms |-> Get(stats.server_processing, None),
     download_ms |-> Get(stats.download, None)]

\* total_ms = stats.get("total", {}).get("avg", 999)
L7TotalMs(stats) == Get(stats.total, Num(L7_DEFAULT_TOTAL_MS * Scale))

L7GradeError(stats) == IF IsNum(L7TotalMs(stats)) THEN "none" ELSE "TypeError"

\* the L7 grading chain, when it raises nothing
L7Quality(stats) ==
    LET total_ms == L7TotalMs(stats).v
    IN  IF total_ms < L7_EXCELLENT_TOTAL_MS * Scale THEN "excellent"
        ELSE IF total_ms < L7_GOOD_TOTAL_MS * Scale THEN "good"
        ELSE "degraded"

\* L3L4Insights that also fires its second rule when L3 is only good
L3L4Insights_AnyGoodPath(l3, l4) ==
    IF l3 # "unknown" /\ l4 # "unknown"
    THEN IF l3 = "degraded" /\ l4 = "degraded"
         THEN <<[type |-> "correlation", layers |-> "L3->L4", severity |-> "high",
                 message |-> <<"Network path quality is directly impacting TCP connection quality">>]>>
         ELSE IF l3 # "degraded" /\ l4 = "degraded"
         THEN <<[type |-> "correlation", layers |-> "L3->L4", severity |-> "medium",
                 message |-> <<"TCP degradation not explained by network path - investigate endpoint congestion">>]>>
         ELSE <<>>
    ELSE <<>>

\* the insight appended by the L3 -> L4 rule, as a sequence of 0 or 1
\* insights (layers "L3->L4" stands for the source's "L3→L4")
L3L4Insights(l3, l4) ==
    IF l3 # "unknown" /\ l4 # "unknown"
    THEN IF l3 = "degraded" /\ l4 = "degraded"
         THEN <<[type |-> "correlation", layers |-> "L3->L4", severity |-> "high",
                 message |-> <<"Network path quality is directly impacting TCP connection quality">>]>>
         ELSE IF l3 = "excellent" /\ l4 = "degraded"
         THEN <<[type |-> "correlation", layers |-> "L3->L4", severity |-> "medium",
                 message |-> <<"TCP degradation not explained by network path - investigate endpoint congestion">>]>>
         ELSE <<>>
    ELSE <<>>

L3L4Finding(l3, l4) ==
    IF l3 = "unknown" \/ l4 = "unknown" THEN EmptyDict
    ELSE IF l3 = "degraded" /\ l4 = "degraded"
    THEN [finding |-> "Path issues causing TCP degradation"]
    ELSE IF l3 = "excellent" /\ l4 = "degraded"
    THEN [finding |-> "TCP issues despite good path (endpoint problem?)"]
    ELSE EmptyDict

\* retrans_by_phase.get("tls_negotiation", 0)
TlsRetransmissions(corr) ==
    IF corr.has_map THEN Get(corr.tls_negotiation, Num(0)).v ELSE 0

\* L4L7Insights that reports a phase entry even when its count is zero
L4L7Insights_ZeroCounts(corr) ==
    IF corr.present /\ corr.has_map /\ IsNum(corr.tls_negotiation)
    THEN <<[type |-> "correlation", layers |-> "L4->L7", severity |-> "high",
            message |-> <<"TCP retransmissions during TLS handshake", corr.tls_negotiation.v>>]>>
    ELSE <<>>

\* the insight appended by the L4 -> L7 rule, as a sequence of 0 or 1
\* insights; the message is the fixed text and the count formatted into it
L4L7Insights(corr) ==
    IF corr.present /\ TlsRetransmissions(corr) > 0
    THEN <<[type |-> "correlation", layers |-> "L4->L7", severity |-> "high",
            message |-> <<"TCP retransmissions during TLS handshake", TlsRetransmissions(corr)>>]>>
    ELSE <<>>

\* OverallGrade that does not leave the unknown layers out of the A+ test
OverallGrade_UnknownCounts(l3, l4, l7) ==
    IF \A q \in {l3, l4, l7} : q = "excellent" THEN "A+"
    ELSE IF "degraded" \in {l3, l4, l7} THEN "C"
    ELSE "B"

\* the end-to-end chain over the three layer qualities
OverallGrade(l3, l4, l7) ==
    IF \A q \in {x \in {l3, l4, l7} : x # "unknown"} : q = "excellent" THEN "A+"
    ELSE IF "degraded" \in {l3, l4, l7} THEN "C"
    ELSE "B"

EndToEndSummary(grade) ==
    IF grade = "A+" THEN [summary |-> "Excellent performance across all layers"]
    ELSE IF grade = "C" THEN [summary |-> "Performance degraded at one or more layers"]
    ELSE [summary |-> "Good overall performance"]

----------------------------------------------------------------------------
(* generate_layered_analysis: one action per section of the function.      *)
(* Each section binds the argument it is the only one to read.  The        *)
(* function has no try/except: an exception leaves it (pc = "raised") and  *)
(* no analysis is returned.                                                *)

Raise(e) ==
    /\ pc' = "raised"
    /\ error' = e

\* L3 Analysis (ping grading and the MTR path summary)
AnalyzeL3 ==
    /\ pc = "l3"
    /\ \E ping \in PingResults, mtr \in MtrResults :
        /\ ping_result' = ping
        /\ mtr_result' = mtr
        /\ IF PingUsable(ping) /\ IcmpLatencyError(ping) # "none"
           THEN Raise(IcmpLatencyError(ping)) /\ UNCHANGED analysis
           ELSE IF PingUsable(ping) /\ L3GradeError(ping) # "none"
           THEN Raise(L3GradeError(ping)) /\ UNCHANGED analysis
           ELSE /\ analysis' =
                    [analysis EXCEPT
                        !.layer3.icmp_latency =
                            IF PingUsable(ping) THEN IcmpLatency(ping) ELSE @,
                        !.layer3.quality =
                            IF PingUsable(ping) THEN L3Quality(ping) ELSE @,
                        !.layer3.path_analysis =
                            IF MtrUsable(mtr)
                            THEN [path_quality |-> mtr.path_quality] ELSE @]
                /\ pc' = "l4"
                /\ UNCHANGED error
    /\ UNCHANGED <<http_result, packet_analysis, tcp_http_correlation, phaseVars, mtrVars,
                   graderVars, laterVars>>

\* L4 Analysis
AnalyzeL4 ==
    /\ pc = "l4"
    /\ \E pkt \in PacketAnalyses :
        /\ packet_analysis' = pkt
        /\ analysis' =
            [analysis EXCEPT
                !.layer4.tcp_quality =
                    IF PacketAnalysisUsable(pkt)
                    THEN [quality_score |->
                            IF pkt.quality_score = "<absent>" THEN "<None>"
                            ELSE pkt.quality_score]
                    ELSE @,
                !.layer4.quality =
                    IF PacketAnalysisUsable(pkt) THEN L4Quality(pkt) ELSE @]
    /\ pc' = "l7"
    /\ UNCHANGED <<error, ping_result, mtr_result, http_result, tcp_http_correlation,
                   phaseVars, mtrVars, graderVars, laterVars>>

\* L7 Analysis
AnalyzeL7 ==
    /\ pc = "l7"
    /\ \E http \in HttpResults :
        /\ http_result' = http
        /\ IF HttpUsable(http) /\ PhaseBreakdownError(http.statistics) # "none"
           THEN Raise(PhaseBreakdownError(http.statistics)) /\ UNCHANGED analysis
           ELSE IF HttpUsable(http) /\ L7GradeError(http.statistics) # "none"
           THEN Raise(L7GradeError(http.statistics)) /\ UNCHANGED analysis
           ELSE /\ analysis' =
                    [analysis EXCEPT
                        !.layer7.http_performance =
                            IF HttpUsable(http)
                            THEN HttpPerformance(http.statistics) ELSE @,
                        !.layer7.phase_breakdown =
                            IF HttpUsable(http)
                            THEN PhaseBreakdown(http.statistics) ELSE @,
                        !.layer7.quality =
                            IF HttpUsable(http)
                            THEN L7Quality(http.statistics) ELSE @]
                /\ pc' = "l3_l4"
                /\ UNCHANGED error
    /\ UNCHANGED <<ping_result, mtr_result, packet_analysis, tcp_http_correlation,
                   phaseVars, mtrVars, graderVars, laterVars>>

\* L3 -> L4: Does path quality affect TCP?
CorrelateL3L4 ==
    /\ pc = "l3_l4"
    /\ analysis' =
        [analysis EXCEPT
            !.correlations.l3_l4 =
                L3L4Finding(analysis.layer3.quality, analysis.layer4.quality),
            !.insights =
                @ \o L3L4Insights(analysis.layer3.quality, analysis.layer4.quality)]
    /\ pc' = "l4_l7"
    /\ UNCHANGED <<error, ping_result, mtr_result, http_result, packet_analysis,
                   tcp_http_correlation, phaseVars, mtrVars, graderVars, laterVars>>

\* an L4 -> L7 rule that puts its insight at the head of the list
CorrelateL4L7_Prepend ==
    /\ pc = "l4_l7"
    /\ \E corr \in Correlations :
        /\ tcp_http_correlation' = corr
        /\ analysis' =
            [analysis EXCEPT
                !.correlations.l4_l7 = IF corr.present THEN corr ELSE @,
                !.insights = L4L7Insights(corr) \o @]
    /\ pc' = "end_to_end"
    /\ UNCHANGED <<error, ping_result, mtr_result, http_result, packet_analysis,
                   phaseVars, mtrVars, graderVars, laterVars>>

\* L4 -> L7: Does TCP affect HTTP?
CorrelateL4L7 ==
    /\ pc = "l4_l7"
    /\ \E corr \in Correlations :
        /\ tcp_http_correlation' = corr
        /\ analysis' =
            [analysis EXCEPT
                !.correlations.l4_l7 = IF corr.present THEN corr ELSE @,
                !.insights = @ \o L4L7Insights(corr)]
    /\ pc' = "end_to_end"
    /\ UNCHANGED <<error, ping_result, mtr_result, http_result, packet_analysis,
                   phaseVars, mtrVars, graderVars, laterVars>>

\* End-to-end insights, then `return analysis`
EndToEnd ==
    /\ pc = "end_to_end"
    /\ LET grade == OverallGrade(analysis.layer3.quality, analysis.layer4.quality,
                                 analysis.layer7.quality)
       IN  analysis' =
            [analysis EXCEPT
                !.overall_grade = grade,
                !.correlations.end_to_end = EndToEndSummary(grade)]
    /\ pc' = "done"
    /\ UNCHANGED <<error, ping_result, mtr_result, http_result, packet_analysis,
                   tcp_http_correlation, phaseVars, mtrVars, graderVars, laterVars>>

----------------------------------------------------------------------------
(* Properties of generate_layered_analysis *)

Returned == pc = "done"

\* the layer qualities of the analysis, L3, L4, L7
Qualities ==
    <<analysis.layer3.quality, analysis.layer4.quality, analysis.layer7.quality>>

InsightsOf(layers) == SelectSeq(analysis.insights, LAMBDA i : i.layers = layers)

\* C1: the returned overall_grade follows the first-match precedence over the
\* three layer qualities: A+ when every layer that is not unknown is
\* excellent, otherwise C when some layer is degraded, otherwise B; so
\* L3 = excellent, L4 = unknown, L7 = excellent is graded A+.
C1_OverallGradePrecedence ==
    Returned =>
        LET known == {i \in 1..3 : Qualities[i] # "unknown"}
            allExcellent == \A i \in known : Qualities[i] = "excellent"
            anyDegraded == \E i \in 1..3 : Qualities[i] = "degraded"
        IN  /\ allExcellent => analysis.overall_grade = "A+"
            /\ (~allExcellent /\ anyDegraded) => analysis.overall_grade = "C"
            /\ (~allExcellent /\ ~anyDegraded) => analysis.overall_grade = "B"
            /\ Qualities = <<"excellent", "unknown", "excellent">>
                => analysis.overall_grade = "A+"

C1_Witness ==
    /\ Returned
    /\ Qualities = <<"excellent", "unknown", "excellent">>
    /\ analysis.overall_grade = "A+"

\* C2: a call without usable ping, capture or HTTP data (all three layer
\* qualities unknown) returns an analysis whose overall_grade is B.
C2_AllUnknownIsB ==
    (Returned /\ Qualities = <<"unknown", "unknown", "unknown">>)
        => analysis.overall_grade = "B"

C4_TlsRetransmissionInsight ==
    pc \in {"end_to_end", "done"} =>
        LET corr == tcp_http_correlation
            recorded == corr.present /\ corr.has_map /\ IsNum(corr.tls_negotiation)
            found == InsightsOf("L4->L7")
        IN  IF recorded /\ corr.tls_negotiation.v > 0
            THEN /\ Len(found) = 1
                 /\ found[1].severity = "high"
                 /\ found[1].message[2] = corr.tls_negotiation.v
            ELSE Len(found) = 0

C4_Witness ==
    /\ Returned
    /\ tcp_http_correlation.present
    /\ tcp_http_correlation.tls_negotiation = Num(MaxRetrans)
    /\ Len(InsightsOf("L4->L7")) = 1
    /\ InsightsOf("L4->L7")[1].message[2] = MaxRetrans

\* C5: after the L3 section, a successful ping result with loss L and
\* average latency A has layer3 quality excellent if L = 0 and A < 20, else
\* good if L < 1 and A < 50, else degraded; without a successful ping result
\* the quality is unknown.
C5_L3Quality ==
    pc # "l3" =>
        LET ping == ping_result
            L == IF IsNum(ping.packet_loss_pct) THEN ping.packet_loss_pct.v ELSE 0
            A == ping.avg_ms.v
            q == analysis.layer3.quality
        IN  /\ (ping.present /\ ping.success /\ IsNum(ping.avg_ms)) =>
                /\ (L = 0 /\ A < 20 * Scale) => q = "excellent"
                /\ (~(L = 0 /\ A < 20 * Scale) /\ L < 1 * Scale /\ A < 50 * Scale)
                    => q = "good"
                /\ (~(L = 0 /\ A < 20 * Scale) /\ ~(L < 1 * Scale /\ A < 50 * Scale))
                    => q = "degraded"
            /\ ~(ping.present /\ ping.success) => q = "unknown"

C5_Witness ==
    /\ Returned
    /\ ping_result.success
    /\ ping_result.packet_loss_pct = Num(Scale \div 2)
    /\ ping_result.avg_ms = Num(20 * Scale - 1)
    /\ analysis.layer3.quality = "good"

\* C6: after the L4 section, a successful packet analysis has layer4 quality
\* excellent or good when its quality_score is that word in lower or upper
\* case, and degraded for every other score; without a successful packet
\* analysis the quality is unknown.
C6_L4Quality ==
    pc \notin {"l3", "l4"} =>
        LET pkt == packet_analysis
            q == analysis.layer4.quality
        IN  IF pkt.present /\ pkt.status = "success"
            THEN /\ pkt.quality_score \in {"excellent", "EXCELLENT"} => q = "excellent"
                 /\ pkt.quality_score \in {"good", "GOOD"} => q = "good"
                 /\ pkt.quality_score \notin {"excellent", "EXCELLENT", "good", "GOOD"}
                        => q = "degraded"
            ELSE q = "unknown"

C6_Witness ==
    /\ Returned
    /\ packet_analysis.status = "success"
    /\ packet_analysis.quality_score = "GOOD"
    /\ analysis.layer4.quality = "good"
\* C7: after the L7 section, a successful HTTP result whose average total
\* request time is T ms has layer7 quality excellent if T < 100, good if
\* 100 <= T < 500 and degraded otherwise; without a successful HTTP result
\* the quality is unknown.
C7_L7Quality ==
    pc \notin {"l3", "l4", "l7"} =>
        LET http == http_result
            T == http.statistics.total.v
            q == analysis.layer7.quality
        IN  /\ (http.present /\ http.status = "success" /\ IsNum(http.statistics.total)) =>
                /\ T < 100 * Scale => q = "excellent"
                /\ (100 * Scale <= T /\ T < 500 * Scale) => q = "good"
                /\ T >= 500 * Scale => q = "degraded"
            /\ ~(http.present /\ http.status = "success") => q = "unknown"

\* C8: a layer whose measurement record is present but lacks the graded
\* metric is graded unknown: a successful ping result without avg_ms, a
\* successful packet analysis whose quality_score is missing or "unknown",
\* and a successful HTTP result whose statistics have no "total" entry.
C8_MissingMetricIsUnknown ==
    /\ (pc # "l3" /\ ping_result.present /\ ping_result.success
            /\ ping_result.avg_ms = Absent)
        => analysis.layer3.quality = "unknown"
    /\ (pc \notin {"l3", "l4"} /\ packet_analysis.present
            /\ packet_analysis.status = "success"
            /\ packet_analysis.quality_score \in {"<absent>", "unknown"})
        => analysis.layer4.quality = "unknown"
    /\ (pc \notin {"l3", "l4", "l7"} /\ http_result.present
            /\ http_result.status = "success"
            /\ http_result.statistics.total = Absent)
        => analysis.layer7.quality = "unknown"

\* C9: generate_layered_analysis never raises, whatever fields of its
\* arguments are absent, None or zero.
C9_NeverRaises == pc # "raised"

\* the layer grades are fixed: the correlation rules are running or done
GradesFixed == pc \in {"l3_l4", "l4_l7", "end_to_end", "done"}

\* list a is the head of list b
IsPrefix(a, b) == Len(a) <= Len(b) /\ SubSeq(b, 1, Len(a)) = a

\* every L3->L4 insight of the list stands before every L4->L7 insight
L3L4First(insights) ==
    \A a, b \in 1..Len(insights) :
        (insights[a].layers = "L3->L4" /\ insights[b].layers = "L4->L7") => a < b

\* C24: the insights are listed in detection order: no layer quality
\* changes once the first correlation rule is evaluated, insights are only
\* appended, the L3->L4 insight stands before the L4->L7 insight when both
\* are present, and the overall grade is computed after the insights
\* without adding to or reordering them.
C24_DetectionOrder ==
    [][/\ GradesFixed => Qualities' = Qualities
       /\ IsPrefix(analysis.insights, analysis'.insights)
       /\ L3L4First(analysis'.insights)
       /\ pc = "end_to_end" => analysis'.insights = analysis.insights
       /\ pc # "end_to_end" => analysis'.overall_grade = analysis.overall_grade]_vars

\* a returned analysis with both insights, the L3->L4 one first
C24_Witness ==
    /\ Returned
    /\ Len(analysis.insights) = 2
    /\ analysis.insights[1].layers = "L3->L4"
    /\ analysis.insights[2].layers = "L4->L7"
    /\ analysis.overall_grade = "C"

----------------------------------------------------------------------------
(* correlate_tcp_to_http_phases.  Times and durations are whole            *)
(* milliseconds: the function only adds and compares them.                 *)

PhaseNames == <<"tcp_handshake", "tls_negotiation", "server_processing", "content_download">>

\* the http_phases of the worked example: 5/10/15/20/50 ms
ExamplePhases ==
    [dns_ms |-> Num(5), tcp_handshake_ms |-> Num(10), tls_handshake_ms |-> Num(15),
     server_process_ms |-> Num(20), download_ms |-> Num(50)]

NoPhases ==
    [dns_ms |-> Absent, tcp_handshake_ms |-> Absent, tls_handshake_ms |-> Absent,
     server_process_ms |-> Absent, download_ms |-> Absent]

ZeroPhases ==
    [dns_ms |-> Num(0), tcp_handshake_ms |-> Num(0), tls_handshake_ms |-> Num(0),
     server_process_ms |-> Num(0), download_ms |-> Num(0)]

\* http_phases: a 1 ms DNS lookup followed by durations of 0 or 1 ms (so
\* that boundaries coincide), the all-zero breakdown, the example, an empty
\* dict and a dict without its DNS and TLS durations
HttpPhases ==
    {[dns_ms |-> Num(1), tcp_handshake_ms |-> Num(t), tls_handshake_ms |-> Num(l),
      server_process_ms |-> Num(p), download_ms |-> Num(c)] :
        t \in 0..1, l \in 0..1, p \in 0..1, c \in 0..1}
    \cup {ZeroPhases, ExamplePhases, NoPhases,
          [NoPhases EXCEPT !.tcp_handshake_ms = Num(1), !.download_ms = Num(1)]}

\* event times: every boundary the 0/1 durations can give and one beyond
EventTimes == 0..6

\* event times for the example: inside its TCP handshake, on the handshake's
\* end boundary, and long after the request
ExampleTimes == {12, 15, 150}

Event(t, retrans, window, length) ==
    [relative_time_ms |-> t, is_retransmission |-> retrans,
     window_size |-> window, length |-> length]

\* events as _extract_tcp_timeline builds them: window_size and length are
\* always keys of the event and hold None when the packet line lacked them;
\* events without the keys come from other callers
Events ==
    {Event(t, FALSE, Num(1000), Num(100)) : t \in EventTimes \cup ExampleTimes}
    \cup {Event(t, TRUE, Num(1000), Num(100)) : t \in {1, 3, 6}}
    \cup {Event(1, FALSE, w, Num(100)) : w \in {None, Absent}}
    \cup {Event(1, FALSE, Num(1000), l) : l \in {None, Absent}}
    \cup {Event(6, FALSE, Num(1000), None)}

RECURSIVE SeqsUpTo(_, _)
SeqsUpTo(S, n) ==
    IF n = 0 THEN {<<>>}
    ELSE LET shorter == SeqsUpTo(S, n - 1)
         IN  shorter \cup {Append(q, e) : q \in {x \in shorter : Len(x) = n - 1}, e \in S}

EventLists == SeqsUpTo(Events, MaxEvents)

\* the correlation dict as the function first builds it
NewCorrelation(phases) ==
    [phases |->
        [tcp_handshake |->
            [duration_ms |-> Get(phases.tcp_handshake_ms, Num(0)).v, tcp_events |-> <<>>,
             event_count |-> Absent, retransmissions |-> Absent,
             retransmission_rate |-> Absent],
         tls_negotiation |->
            [duration_ms |-> Get(phases.tls_handshake_ms, Num(0)).v, tcp_events |-> <<>>,
             event_count |-> Absent, retransmissions |-> Absent,
             retransmission_rate |-> Absent],
         server_processing |->
            [duration_ms |-> Get(phases.server_process_ms, Num(0)).v, tcp_events |-> <<>>,
             event_count |-> Absent, retransmissions |-> Absent,
             retransmission_rate |-> Absent],
         content_download |->
            [duration_ms |-> Get(phases.download_ms, Num(0)).v, tcp_events |-> <<>>,
             event_count |-> Absent, retransmissions |-> Absent,
             retransmission_rate |-> Absent]],
     retransmissions_by_phase |-> <<>>,
     window_evolution |-> <<>>,
     total_bytes |-> 0,
     status |-> "unknown",
     error |-> "none"]

\* Calculate phase boundaries
Boundaries(phases) ==
    LET dns_end == Get(phases.dns_ms, Num(0)).v
        tcp_end == dns_end + Get(phases.tcp_handshake_ms, Num(0)).v
        tls_end == tcp_end + Get(phases.tls_handshake_ms, Num(0)).v
        server_end == tls_end + Get(phases.server_process_ms, Num(0)).v
        download_end == server_end + Get(phases.download_ms, Num(0)).v
    IN  [dns_end |-> dns_end, tcp_end |-> tcp_end, tls_end |-> tls_end,
         server_end |-> server_end, download_end |-> download_end]

\* PhaseOf with exclusive boundaries (< for <=)
PhaseOf_Exclusive(relative_time_ms, b) ==
    IF relative_time_ms < b.tcp_end THEN "tcp_handshake"
    ELSE IF relative_time_ms < b.tls_end THEN "tls_negotiation"
    ELSE IF relative_time_ms < b.server_end THEN "server_processing"
    ELSE IF relative_time_ms < b.download_end THEN "content_download"
    ELSE "<none>"

\* PhaseOf without the final boundary: every later event is a download event
PhaseOf_NoFinalBoundary(relative_time_ms, b) ==
    IF relative_time_ms <= b.tcp_end THEN "tcp_handshake"
    ELSE IF relative_time_ms <= b.tls_end THEN "tls_negotiation"
    ELSE IF relative_time_ms <= b.server_end THEN "server_processing"
    ELSE "content_download"

\* Determine which phase this event belongs to ("<none>": the loop continues)
PhaseOf(relative_time_ms, b) ==
    IF relative_time_ms <= b.tcp_end THEN "tcp_handshake"
    ELSE IF relative_time_ms <= b.tls_end THEN "tls_negotiation"
    ELSE IF relative_time_ms <= b.server_end THEN "server_processing"
    ELSE IF relative_time_ms <= b.download_end THEN "content_download"
    ELSE "<none>"

\* a counter that books every retransmission on the handshake
CountRetransmission_OnHandshake(by_phase, phase) ==
    [p \in DOMAIN by_phase \cup {"tcp_handshake"} |->
        IF p = "tcp_handshake"
        THEN (IF p \in DOMAIN by_phase THEN by_phase[p] ELSE 0) + 1
        ELSE by_phase[p]]

\* correlation["retransmissions_by_phase"] after one more retransmission
CountRetransmission(by_phase, phase) ==
    [p \in DOMAIN by_phase \cup {phase} |->
        IF p = phase
        THEN (IF p \in DOMAIN by_phase THEN by_phase[p] ELSE 0) + 1
        ELSE by_phase[p]]

\* RetransmissionRate as a fraction of 1 instead of a percentage
RetransmissionRate_Fraction(retransmissions, event_count) ==
    IF event_count > 0
    THEN [num |-> retransmissions, den |-> event_count]
    ELSE [num |-> 0, den |-> 1]

\* retransmissions / len(events) * 100 as the exact fraction num / den,
\* 0 for a phase without events
RetransmissionRate(retransmissions, event_count) ==
    IF event_count > 0
    THEN [num |-> retransmissions * 100, den |-> event_count]
    ELSE [num |-> 0, den |-> 1]

\* Calculate per-phase statistics
PhaseStatistics(phase_data, phase_name, by_phase) ==
    LET retransmissions == IF phase_name \in DOMAIN by_phase THEN by_phase[phase_name] ELSE 0
    IN  [phase_data EXCEPT
            !.event_count = Num(Len(phase_data.tcp_events)),
            !.retransmissions = Num(retransmissions),
            !.retransmission_rate =
                RetransmissionRate(retransmissions, Len(phase_data.tcp_events))]
\* the correlation after the loop body has bucketed `event` into `phase`,
\* up to the byte counter
Bucketed(corr, event, phase) ==
    [corr EXCEPT
        !.phases[phase].tcp_events = Append(@, event),
        !.retransmissions_by_phase =
            IF event.is_retransmission THEN CountRetransmission(@, phase) ELSE @,
        !.window_evolution =
            IF event.window_size # Absent
            THEN Append(@, [time_ms |-> event.relative_time_ms, phase |-> phase,
                            window_size |-> event.window_size])
            ELSE @]

\* lines 44-83: build the dict, open the SSH session, extract the timeline,
\* compute the boundaries.  A failing session or command raises into the
\* function's except clause; an empty timeline returns "no_tcp_data".
StartCorrelation ==
    /\ pc = "phases_start"
    /\ \E phases \in HttpPhases :
        /\ http_phases' = phases
        /\ \/ /\ correlation' =
                    [NewCorrelation(phases) EXCEPT !.status = "error", !.error = "SSHError"]
              /\ pc' = "phases_done"
              /\ UNCHANGED tcp_events
           \/ \E events \in EventLists :
                /\ tcp_events' = events
                /\ IF events = <<>>
                   THEN /\ correlation' =
                            [NewCorrelation(phases) EXCEPT !.status = "no_tcp_data"]
                        /\ pc' = "phases_done"
                   ELSE /\ correlation' = NewCorrelation(phases)
                        /\ pc' = "phases_loop"
    /\ UNCHANGED <<processed, error, analysisVars, mtrVars, graderVars, laterVars>>

\* lines 86-120: one pass of `for event in tcp_events`.  Adding a None
\* length to total_bytes raises TypeError into the except clause.
CorrelateEvent ==
    /\ pc = "phases_loop"
    /\ processed < Len(tcp_events)
    /\ processed' = processed + 1
    /\ LET event == tcp_events[processed + 1]
           phase == PhaseOf(event.relative_time_ms, Boundaries(http_phases))
       IN  IF phase = "<none>"
           THEN UNCHANGED <<pc, correlation>>
           ELSE IF event.length = Absent
           THEN /\ correlation' = Bucketed(correlation, event, phase)
                /\ UNCHANGED pc
           ELSE IF event.length = None
           THEN /\ correlation' =
                    [Bucketed(correlation, event, phase) EXCEPT
                        !.status = "error", !.error = "TypeError"]
                /\ pc' = "phases_done"
           ELSE /\ correlation' =
                    [Bucketed(correlation, event, phase) EXCEPT
                        !.total_bytes = @ + event.length.v]
                /\ UNCHANGED pc
    /\ UNCHANGED <<http_phases, tcp_events, error, analysisVars, mtrVars, graderVars, laterVars>>

\* lines 122-138: per-phase statistics, status "success", return
FinishCorrelation ==
    /\ pc = "phases_loop"
    /\ processed = Len(tcp_events)
    /\ correlation' =
        [correlation EXCEPT
            !.phases =
                [p \in DOMAIN @ |->
                    PhaseStatistics(@[p], p, correlation.retransmissions_by_phase)],
            !.status = "success"]
    /\ pc' = "phases_done"
    /\ UNCHANGED <<http_phases, tcp_events, processed, error, analysisVars, mtrVars,
                   graderVars, laterVars>>

----------------------------------------------------------------------------
(* Properties of correlate_tcp_to_http_phases *)

\* the events the loop has taken so far
Taken == SubSeq(tcp_events, 1, processed)

\* C10: with the boundaries tcp_end <= tls_end <= server_end <= download_end
\* taken as running sums of the DNS, TCP, TLS, server and download durations,
\* each phase's bucket holds exactly the taken events whose time exceeds
\* every earlier end boundary and not this phase's, in input order; so an
\* event on a boundary is in the earlier phase, and with durations
\* 5/10/15/20/50 an event at 12 ms is in tcp_handshake.
C10_FirstBoundaryNotExceeded ==
    pc \in {"phases_loop", "phases_done"} =>
        LET dur(f) == IF http_phases[f] = Absent THEN 0 ELSE http_phases[f].v
            tcp_end == dur("dns_ms") + dur("tcp_handshake_ms")
            tls_end == tcp_end + dur("tls_handshake_ms")
            server_end == tls_end + dur("server_process_ms")
            download_end == server_end + dur("download_ms")
            ends == <<tcp_end, tls_end, server_end, download_end>>
            first(e, k) ==
                /\ e.relative_time_ms <= ends[k]
                /\ \A j \in 1..(k - 1) : e.relative_time_ms > ends[j]
        IN  /\ tcp_end <= tls_end /\ tls_end <= server_end /\ server_end <= download_end
            /\ \A k \in 1..4 :
                correlation.phases[PhaseNames[k]].tcp_events
                    = SelectSeq(Taken, LAMBDA e : first(e, k))
            /\ http_phases = ExamplePhases =>
                \A i \in 1..processed :
                    tcp_events[i].relative_time_ms = 12 =>
                        \E n \in 1..Len(correlation.phases.tcp_handshake.tcp_events) :
                            correlation.phases.tcp_handshake.tcp_events[n] = tcp_events[i]

\* the example: durations 5/10/15/20/50, an event at 12 ms and an event on
\* the 15 ms boundary, both bucketed into tcp_handshake
C10_Witness ==
    /\ pc = "phases_done"
    /\ correlation.status = "success"
    /\ http_phases = ExamplePhases
    /\ Len(tcp_events) = 2
    /\ tcp_events[1].relative_time_ms = 12
    /\ tcp_events[2].relative_time_ms = 15
    /\ Len(correlation.phases.tcp_handshake.tcp_events) = 2
    /\ Len(correlation.phases.tls_negotiation.tcp_events) = 0

\* the end of the request: the sum of the five durations, missing ones as 0
DownloadEnd ==
    LET dur(f) == IF http_phases[f] = Absent THEN 0 ELSE http_phases[f].v
    IN  dur("dns_ms") + dur("tcp_handshake_ms") + dur("tls_handshake_ms")
            + dur("server_process_ms") + dur("download_ms")

\* the taken events that are not later than the end of the request
InWindow == SelectSeq(Taken, LAMBDA e : e.relative_time_ms <= DownloadEnd)

RECURSIVE SumLengths(_)
SumLengths(s) ==
    IF s = <<>> THEN 0
    ELSE (IF IsNum(Head(s).length) THEN Head(s).length.v ELSE 0) + SumLengths(Tail(s))

RECURSIVE SumCounts(_, _)
SumCounts(f, names) ==
    IF names = {} THEN 0
    ELSE LET n == CHOOSE x \in names : TRUE
         IN  f[n] + SumCounts(f, names \ {n})

PhaseSet == {PhaseNames[k] : k \in 1..4}

\* C11: an event later than the download boundary is in no phase bucket and
\* adds nothing to any event_count, to the retransmission counts, to
\* total_bytes or to window_evolution: all of these count the in-window
\* events only; and the result is an error only when the SSH session failed
\* or an in-window event could not be processed, never because of a late
\* event.
C11_LateEventsDropped ==
    pc \in {"phases_loop", "phases_done"} =>
        /\ \A p \in PhaseSet :
            \A n \in 1..Len(correlation.phases[p].tcp_events) :
                correlation.phases[p].tcp_events[n].relative_time_ms <= DownloadEnd
        /\ SumCounts([p \in PhaseSet |-> Len(correlation.phases[p].tcp_events)], PhaseSet)
                = Len(InWindow)
        /\ SumCounts(correlation.retransmissions_by_phase,
                     DOMAIN correlation.retransmissions_by_phase)
                = Len(SelectSeq(InWindow, LAMBDA e : e.is_retransmission))
        /\ correlation.total_bytes = SumLengths(InWindow)
        /\ \A n \in 1..Len(correlation.window_evolution) :
                correlation.window_evolution[n].time_ms <= DownloadEnd
        /\ Len(correlation.window_evolution) <= Len(InWindow)
        /\ correlation.status = "success" =>
            /\ SumCounts([p \in PhaseSet |-> correlation.phases[p].event_count.v], PhaseSet)
                    = Len(InWindow)
            /\ SumCounts([p \in PhaseSet |-> correlation.phases[p].retransmissions.v], PhaseSet)
                    = Len(SelectSeq(InWindow, LAMBDA e : e.is_retransmission))
        /\ correlation.status = "error" =>
            \/ correlation.error = "SSHError"
            \/ \E n \in 1..Len(InWindow) : InWindow[n].length = None

\* the example: durations 5/10/15/20/50 (total 100), an event at 12 ms and
\* one at 150 ms; the result counts one event and 100 bytes
C11_Witness ==
    /\ pc = "phases_done"
    /\ correlation.status = "success"
    /\ http_phases = ExamplePhases
    /\ Len(tcp_events) = 2
    /\ tcp_events[1].relative_time_ms = 12
    /\ tcp_events[2].relative_time_ms = 150
    /\ correlation.phases.tcp_handshake.event_count = Num(1)
    /\ correlation.phases.content_download.event_count = Num(0)
    /\ correlation.total_bytes = 100
    /\ Len(correlation.window_evolution) = 1

\* C12: after a successful correlation each phase's event_count is the size
\* of its bucket, its retransmissions the number of retransmitted events in
\* the bucket, and its retransmission_rate is retransmissions / event_count
\* * 100, or 0 for a phase without events; the rate never has a zero
\* divisor.
C12_RetransmissionRate ==
    (pc = "phases_done" /\ correlation.status = "success") =>
        \A p \in PhaseSet :
            LET data == correlation.phases[p]
                events == data.tcp_events
                retransmitted == Len(SelectSeq(events, LAMBDA e : e.is_retransmission))
                rate == data.retransmission_rate
            IN  /\ data.event_count = Num(Len(events))
                /\ data.retransmissions = Num(retransmitted)
                /\ rate.den # 0
                /\ IF Len(events) = 0
                   THEN rate.num = 0
                   ELSE rate.num * Len(events) = retransmitted * 100 * rate.den

\* one of two handshake events is a retransmission: the handshake's rate is
\* 50 and the rate of the empty download phase is 0
C12_Witness ==
    /\ pc = "phases_done"
    /\ correlation.status = "success"
    /\ correlation.phases.tcp_handshake.event_count = Num(2)
    /\ correlation.phases.tcp_handshake.retransmissions = Num(1)
    /\ correlation.phases.tcp_handshake.retransmission_rate.num
            = 50 * correlation.phases.tcp_handshake.retransmission_rate.den
    /\ correlation.phases.content_download.event_count = Num(0)
    /\ correlation.phases.content_download.retransmission_rate.num = 0

\* C13: when every duration of the HTTP breakdown is zero or missing and the
\* capture held TCP events, the returned correlation has status "no_data".
C13_NoDataOnEmptyBreakdown ==
    ( /\ pc = "phases_done"
      /\ \A f \in DOMAIN http_phases : http_phases[f] \in {Absent, Num(0)}
      /\ tcp_events # <<>> )
        => correlation.status = "no_data"

\* C14: when the session worked and the capture held TCP events, the
\* correlation finishes with status "success" after taking every event, and
\* total_bytes is the sum of the lengths of the in-window events that have
\* one: an event whose length is absent or None adds nothing.
C14_NullLengthSkipped ==
    (pc = "phases_done" /\ correlation.error # "SSHError" /\ tcp_events # <<>>) =>
        /\ correlation.status = "success"
        /\ processed = Len(tcp_events)
        /\ correlation.total_bytes = SumLengths(InWindow)

\* C15: window_evolution holds, in input order, one entry (time_ms, phase,
\* window_size) for every in-window event taken so far that has a numeric
\* window size, with the phase the event was assigned to, and no entry for
\* an event whose window size is absent or None.
C15_WindowEvolution ==
    pc \in {"phases_loop", "phases_done"} =>
        LET sized == SelectSeq(InWindow, LAMBDA e : IsNum(e.window_size))
        IN  /\ Len(correlation.window_evolution) = Len(sized)
            /\ \A n \in 1..Len(sized) :
                correlation.window_evolution[n] =
                    [time_ms |-> sized[n].relative_time_ms,
                     phase |-> PhaseOf(sized[n].relative_time_ms, Boundaries(http_phases)),
                     window_size |-> sized[n].window_size]

\* the buckets that hold the event
BucketsOf(event) ==
    {p \in PhaseSet :
        \E n \in 1..Len(correlation.phases[p].tcp_events) :
            correlation.phases[p].tcp_events[n] = event}

\* C27: after a successful correlation the counts are conserved: the four
\* event_counts add up to the number of input events not later than
\* download_end, each of these events is counted in exactly one phase and
\* a later one in none, each phase's retransmissions is at most its
\* event_count, so its rate lies in [0, 100], and the phases are exactly
\* the four fixed names.
C27_CountsConserved ==
    (pc = "phases_done" /\ correlation.status = "success") =>
        /\ DOMAIN correlation.phases = PhaseSet
        /\ Cardinality(PhaseSet) = 4
        /\ SumCounts([p \in PhaseSet |-> correlation.phases[p].event_count.v], PhaseSet)
                = Cardinality({i \in 1..Len(tcp_events) :
                                tcp_events[i].relative_time_ms <= DownloadEnd})
        /\ \A i \in 1..Len(tcp_events) :
                Cardinality(BucketsOf(tcp_events[i]))
                    = IF tcp_events[i].relative_time_ms <= DownloadEnd THEN 1 ELSE 0
        /\ \A p \in PhaseSet :
            LET data == correlation.phases[p]
            IN  /\ 0 <= data.retransmissions.v
                /\ data.retransmissions.v <= data.event_count.v
                /\ data.retransmission_rate.den > 0
                /\ 0 <= data.retransmission_rate.num
                /\ data.retransmission_rate.num <= 100 * data.retransmission_rate.den

\* a successful correlation of a retransmission in the TLS phase and an
\* event after the end of the request: one event counted, rate 100
C27_Witness ==
    /\ pc = "phases_done"
    /\ correlation.status = "success"
    /\ Len(tcp_events) = 2
    /\ \E i \in 1..2 : tcp_events[i].relative_time_ms > DownloadEnd
    /\ correlation.phases.tls_negotiation.event_count = Num(1)
    /\ correlation.phases.tls_negotiation.retransmissions = Num(1)
    /\ correlation.phases.tcp_handshake.event_count = Num(0)
    /\ correlation.phases.tls_negotiation.retransmission_rate.num
            = 100 * correlation.phases.tls_negotiation.retransmission_rate.den

----------------------------------------------------------------------------
(* correlate_mtr_to_tcp.  Its arguments are floats in milliseconds; the    *)
(* model keeps them in microseconds.  round(x, 2) yields hundredths of a   *)
(* millisecond and round(x, 1) tenths of a percent, so the returned        *)
(* mtr_predicted_rtt and variance_ms are in hundredths of a millisecond    *)
(* and variance_percentage is in tenths of a percent.  The input values    *)
(* are even numbers of microseconds, so that no rounding to hundredths is  *)
(* a tie.  The function's except clause is not reachable with hops whose   *)
(* avg_ms is a number or missing, which is what the MTR parsers build.     *)

\* a hop counts as contributing above this average latency (ms)
SIGNIFICANT_AVG_MS == 5

\* avg_ms of a hop in microseconds: missing, 0, 0.002 ms (doubles to less
\* than a hundredth), 1, 1.502, 3, exactly 5, just above 5, and 8 ms
AvgValues == {Absent} \cup {Num(n) : n \in {0, 2, 1000, 1502, 3000, 5000, 5002, 8000}}

\* a hop as _parse_mtr_text and _parse_mtr_json build it, reduced to the
\* keys correlate_mtr_to_tcp reads; the host is named by its position
Hop(n, avg) == [hop |-> n, host |-> n, avg_ms |-> avg, loss_pct |-> Num(0)]

HopLists ==
    {[i \in 1..Len(q) |-> Hop(i, q[i])] : q \in SeqsUpTo(AvgValues, MaxHops)}

\* tcp_handshake_ms in microseconds: 0, 6, 20 and 20.004 ms
HandshakeValues == {0, 6000, 20000, 20004}

\* round(x, 2) of x microseconds, in hundredths of a millisecond
Round2(x) == RoundDiv(x, 10)

\* NewMtrCorrelation with the variance of a prediction of 0 already filled in
NewMtrCorrelation_Variance(handshake) ==
    [mtr_predicted_rtt |-> 0, tcp_actual_rtt |-> handshake,
     variance_ms |-> Round2(handshake), variance_percentage |-> 0,
     contributing_hops |-> <<>>, status |-> "unknown"]

\* the correlation dict as the function first builds it
NewMtrCorrelation(handshake) ==
    [mtr_predicted_rtt |-> 0, tcp_actual_rtt |-> handshake, variance_ms |-> 0,
     variance_percentage |-> 0, contributing_hops |-> <<>>, status |-> "unknown"]

\* MtrPredicted without the doubling: the one-way latency of the last hop
MtrPredicted_OneWay(hops) == Get(hops[Len(hops)].avg_ms, Num(0)).v

\* mtr_predicted = last_hop.get("avg_ms", 0) * 2, in microseconds
MtrPredicted(hops) == Get(hops[Len(hops)].avg_ms, Num(0)).v * 2

\* round((variance_ms / mtr_predicted) * 100, 1) in tenths of a percent, from
\* the rounded variance (hundredths of a ms) and the unrounded prediction
\* (microseconds)
VariancePercentage(variance_ms, mtr_predicted) ==
    RoundDiv(variance_ms * 10000, mtr_predicted)

\* lines 272-281: the prediction and the variance fields
Predicted(corr, hops, handshake) ==
    LET mtr_predicted == MtrPredicted(hops)
        variance_ms == Round2(handshake - mtr_predicted)
    IN  [corr EXCEPT
            !.mtr_predicted_rtt = Round2(mtr_predicted),
            !.variance_ms = variance_ms,
            !.variance_percentage =
                IF mtr_predicted > 0
                THEN VariancePercentage(variance_ms, mtr_predicted)
                ELSE @]

\* IsContributing with an inclusive threshold (>= for >)
IsContributing_Inclusive(hop) ==
    Get(hop.avg_ms, Num(0)).v >= SIGNIFICANT_AVG_MS * 1000

\* hop.get("avg_ms", 0) > 5
IsContributing(hop) == Get(hop.avg_ms, Num(0)).v > SIGNIFICANT_AVG_MS * 1000

\* the entry appended to contributing_hops
ContributingHop(hop) ==
    [hop_number |-> hop.hop, ip |-> hop.host, latency_ms |-> hop.avg_ms,
     loss_pct |-> Get(hop.loss_pct, Num(0))]

\* lines 260-281 and 294-295: build the dict; an empty hop list returns
\* "no_mtr_data", otherwise the prediction is taken from the last hop
StartMtrCorrelation ==
    /\ pc = "mtr_start"
    /\ \E hops \in HopLists, handshake \in HandshakeValues :
        /\ mtr_hops' = hops
        /\ tcp_handshake_ms' = handshake
        /\ IF hops # <<>>
           THEN /\ mtr_correlation' =
                    Predicted(NewMtrCorrelation(handshake), hops, handshake)
                /\ pc' = "mtr_loop"
           ELSE /\ mtr_correlation' =
                    [NewMtrCorrelation(handshake) EXCEPT !.status = "no_mtr_data"]
                /\ pc' = "mtr_done"
    /\ UNCHANGED <<scanned, error, analysisVars, phaseVars, graderVars, laterVars>>

\* lines 284-291: one pass of `for hop in mtr_hops`
ScanHop ==
    /\ pc = "mtr_loop"
    /\ scanned < Len(mtr_hops)
    /\ scanned' = scanned + 1
    /\ LET hop == mtr_hops[scanned + 1]
       IN  mtr_correlation' =
            IF IsContributing(hop)
            THEN [mtr_correlation EXCEPT
                    !.contributing_hops = Append(@, ContributingHop(hop))]
            ELSE mtr_correlation
    /\ UNCHANGED <<pc, mtr_hops, tcp_handshake_ms, error, analysisVars, phaseVars,
                   graderVars, laterVars>>

\* lines 293 and 301: status "success", return
FinishMtrCorrelation ==
    /\ pc = "mtr_loop"
    /\ scanned = Len(mtr_hops)
    /\ mtr_correlation' = [mtr_correlation EXCEPT !.status = "success"]
    /\ pc' = "mtr_done"
    /\ UNCHANGED <<mtr_hops, tcp_handshake_ms, scanned, error, analysisVars, phaseVars,
                   graderVars, laterVars>>

----------------------------------------------------------------------------
(* Properties of correlate_mtr_to_tcp *)

\* avg_ms of the last hop in microseconds, a missing one as 0
LastAvg ==
    LET last == mtr_hops[Len(mtr_hops)]
    IN  IF last.avg_ms = Absent THEN 0 ELSE last.avg_ms.v

\* r is num / den rounded to a nearest integer
Nearest(r, num, den) ==
    LET diff == r * den - num
    IN  2 * (IF diff < 0 THEN 0 - diff ELSE diff) <= den

\* the hops of the example: avg 1, 3 and 8 ms, and a 20 ms handshake
IsExample ==
    /\ Len(mtr_hops) = 3
    /\ mtr_hops[1].avg_ms = Num(1000)
    /\ mtr_hops[2].avg_ms = Num(3000)
    /\ mtr_hops[3].avg_ms = Num(8000)
    /\ tcp_handshake_ms = 20000

\* C16 as stated: for a non-empty hop list mtr_predicted_rtt is exactly
\* 2 * avg_ms of the last hop, variance_ms exactly tcp_handshake_ms -
\* mtr_predicted_rtt, and variance_percentage exactly variance_ms /
\* mtr_predicted_rtt * 100 when the prediction is > 0 and 0 when it is 0.
C16_ExactPrediction ==
    (pc = "mtr_done" /\ mtr_hops # <<>>) =>
        /\ mtr_correlation.mtr_predicted_rtt * 10 = 2 * LastAvg
        /\ mtr_correlation.variance_ms * 10
                = tcp_handshake_ms - mtr_correlation.mtr_predicted_rtt * 10
        /\ IF mtr_correlation.mtr_predicted_rtt > 0
           THEN mtr_correlation.variance_percentage * mtr_correlation.mtr_predicted_rtt
                    = mtr_correlation.variance_ms * 1000
           ELSE mtr_correlation.variance_percentage = 0

\* C16 (amended): for a non-empty hop list the call succeeds, and with
\* p = 2 * avg_ms of the last hop (0 for a missing avg_ms) mtr_predicted_rtt
\* is p rounded to two decimals, variance_ms is tcp_handshake_ms - p rounded
\* to two decimals, and variance_percentage is variance_ms / p * 100 rounded
\* to one decimal when p > 0 and 0 when p = 0; hops with avg 1, 3, 8 and a
\* handshake of 20 give 16, 4 and 25.0.
C16_RoundedPrediction ==
    (pc = "mtr_done" /\ mtr_hops # <<>>) =>
        LET p == 2 * LastAvg
        IN  /\ mtr_correlation.status = "success"
            /\ mtr_correlation.tcp_actual_rtt = tcp_handshake_ms
            /\ Nearest(mtr_correlation.mtr_predicted_rtt, p, 10)
            /\ Nearest(mtr_correlation.variance_ms, tcp_handshake_ms - p, 10)
            /\ IF p > 0
               THEN Nearest(mtr_correlation.variance_percentage,
                            mtr_correlation.variance_ms * 10000, p)
               ELSE mtr_correlation.variance_percentage = 0
            /\ IsExample =>
                /\ mtr_correlation.mtr_predicted_rtt = 1600
                /\ mtr_correlation.variance_ms = 400
                /\ mtr_correlation.variance_percentage = 250

\* the example has returned
C16_Witness ==
    /\ pc = "mtr_done"
    /\ IsExample
    /\ mtr_correlation.status = "success"
    /\ mtr_correlation.mtr_predicted_rtt = 1600
    /\ mtr_correlation.variance_percentage = 250

\* the hops the contributing-hop loop has taken so far
Scanned == SubSeq(mtr_hops, 1, scanned)

\* C17: contributing_hops lists exactly the scanned hops whose avg_ms is
\* strictly greater than 5 ms, one entry per hop carrying its number, host,
\* average and loss, in the order of the hop list; a hop with avg_ms exactly
\* 5 or without avg_ms is not listed.
C17_ContributingHops ==
    pc \in {"mtr_loop", "mtr_done"} =>
        LET slow == SelectSeq(Scanned, LAMBDA h : h.avg_ms # Absent /\ h.avg_ms.v > 5000)
            listed == mtr_correlation.contributing_hops
        IN  /\ Len(listed) = Len(slow)
            /\ \A n \in 1..Len(slow) :
                listed[n] = [hop_number |-> slow[n].hop, ip |-> slow[n].host,
                             latency_ms |-> slow[n].avg_ms, loss_pct |-> slow[n].loss_pct]
            /\ \A n \in 1..Len(listed) :
                /\ listed[n].latency_ms \notin {Absent, Num(5000)}
                /\ \A m \in 1..(n - 1) : listed[m].hop_number < listed[n].hop_number

\* hops of exactly 5 ms, 5.002 ms and 8 ms: the second and the third are
\* listed, in that order
C17_Witness ==
    /\ pc = "mtr_done"
    /\ Len(mtr_hops) = 3
    /\ mtr_hops[1].avg_ms = Num(5000)
    /\ mtr_hops[2].avg_ms = Num(5002)
    /\ mtr_hops[3].avg_ms = Num(8000)
    /\ Len(mtr_correlation.contributing_hops) = 2
    /\ mtr_correlation.contributing_hops[1].hop_number = 2
    /\ mtr_correlation.contributing_hops[2].hop_number = 3

\* C18: for an empty hop list the function returns status "no_mtr_data" with
\* mtr_predicted_rtt, variance_ms and variance_percentage 0 and no
\* contributing hops, whatever the handshake latency, and nothing is raised.
C18_NoMtrData ==
    (pc = "mtr_done" /\ mtr_hops = <<>>) =>
        /\ mtr_correlation.status = "no_mtr_data"
        /\ mtr_correlation.mtr_predicted_rtt = 0
        /\ mtr_correlation.variance_ms = 0
        /\ mtr_correlation.variance_percentage = 0
        /\ mtr_correlation.contributing_hops = <<>>
        /\ mtr_correlation.tcp_actual_rtt = tcp_handshake_ms
        /\ error = "none"

\* an empty hop list with a 20 ms handshake has returned
C18_Witness ==
    /\ pc = "mtr_done"
    /\ mtr_hops = <<>>
    /\ tcp_handshake_ms = 20000
    /\ mtr_correlation.status = "no_mtr_data"

----------------------------------------------------------------------------
(* PerformanceGrader (src/src/cnf/formatter.py).  The three functions are  *)
(* static and pure; they only compare their float argument with fixed      *)
(* thresholds, so the argument is kept in fixed point, units of 1/Scale    *)
(* ms or percent.  The emoji of the results are written by name.           *)

\* the distance argument; any string other than "same-region" and
\* "cross-country" selects the regional table
Distances == {"same-region", "regional", "cross-country", "intercontinental"}

\* latencies for a distance: one unit below, on and one unit above every
\* threshold of its table, negative ones, 0 and one far beyond the last
\* threshold
LatencyValues(distance) ==
    LET thresholds ==
            IF distance = "same-region" THEN {2, 5, 15, 30}
            ELSE IF distance = "cross-country" THEN {50, 70, 100, 150}
            ELSE {20, 40, 70, 100}
    IN  {t * Scale + d : t \in thresholds, d \in {-1, 0, 1}}
            \cup {0 - Scale, -1, 0, 200 * Scale}

\* loss percentages: negative, 0, around 1 and 5, 100 and above 100
LossPercentages ==
    {0 - Scale, -1, 0, 1, Scale - 1, Scale, Scale + 1, 5 * Scale - 1, 5 * Scale,
     100 * Scale, 100 * Scale + 1, 101 * Scale}

\* standard deviations: negative, 0, around 1 and 5
StddevValues ==
    {0 - Scale, -1, 0, Scale - 1, Scale, Scale + 1, 5 * Scale - 1, 5 * Scale, 6 * Scale}

\* one if/elif chain of grade_latency with inclusive upper bounds (<= for <)
LatencyLadder_Inclusive(latency_ms, a_plus, a, b, c) ==
    IF latency_ms <= a_plus * Scale THEN <<"A+", "1st_place_medal", "bright_green">>
    ELSE IF latency_ms <= a * Scale THEN <<"A", "2nd_place_medal", "green">>
    ELSE IF latency_ms <= b * Scale THEN <<"B", "3rd_place_medal", "yellow">>
    ELSE IF latency_ms <= c * Scale THEN <<"C", "warning", "orange3">>
    ELSE <<"D", "cross_mark", "red">>

\* one if/elif chain of grade_latency: (grade, emoji, color)
LatencyLadder(latency_ms, a_plus, a, b, c) ==
    IF latency_ms < a_plus * Scale THEN <<"A+", "1st_place_medal", "bright_green">>
    ELSE IF latency_ms < a * Scale THEN <<"A", "2nd_place_medal", "green">>
    ELSE IF latency_ms < b * Scale THEN <<"B", "3rd_place_medal", "yellow">>
    ELSE IF latency_ms < c * Scale THEN <<"C", "warning", "orange3">>
    ELSE <<"D", "cross_mark", "red">>

grade_latency(latency_ms, distance) ==
    IF distance = "same-region" THEN LatencyLadder(latency_ms, 2, 5, 15, 30)
    ELSE IF distance = "cross-country" THEN LatencyLadder(latency_ms, 50, 70, 100, 150)
    ELSE LatencyLadder(latency_ms, 20, 40, 70, 100)

\* (emoji, color)
grade_packet_loss(loss_pct) ==
    IF loss_pct = 0 THEN <<"check_mark", "bright_green">>
    ELSE IF loss_pct < 1 * Scale THEN <<"warning", "yellow">>
    ELSE IF loss_pct < 5 * Scale THEN <<"orange_diamond", "orange3">>
    ELSE <<"cross_mark", "red">>

\* (emoji, color)
grade_jitter(stddev_ms) ==
    IF stddev_ms < 1 * Scale THEN <<"check_mark", "bright_green">>
    ELSE IF stddev_ms < 5 * Scale THEN <<"warning", "yellow">>
    ELSE <<"cross_mark", "red">>

\* no call has been made
NoCall == [fn |-> "none", args |-> <<>>, result |-> <<>>]

\* a caller grades a latency
GradeLatency ==
    /\ pc = "grade"
    /\ \E distance \in Distances : \E latency_ms \in LatencyValues(distance) :
        graded' = [fn |-> "grade_latency", args |-> <<latency_ms, distance>>,
                   result |-> grade_latency(latency_ms, distance)]
    /\ graded_before' = graded
    /\ UNCHANGED <<pc, error, analysisVars, phaseVars, mtrVars, laterVars>>

\* a caller grades a packet loss
GradePacketLoss ==
    /\ pc = "grade"
    /\ \E loss_pct \in LossPercentages :
        graded' = [fn |-> "grade_packet_loss", args |-> <<loss_pct>>,
                   result |-> grade_packet_loss(loss_pct)]
    /\ graded_before' = graded
    /\ UNCHANGED <<pc, error, analysisVars, phaseVars, mtrVars, laterVars>>

\* a caller grades a jitter
GradeJitter ==
    /\ pc = "grade"
    /\ \E stddev_ms \in StddevValues :
        graded' = [fn |-> "grade_jitter", args |-> <<stddev_ms>>,
                   result |-> grade_jitter(stddev_ms)]
    /\ graded_before' = graded
    /\ UNCHANGED <<pc, error, analysisVars, phaseVars, mtrVars, laterVars>>

----------------------------------------------------------------------------
(* Properties of PerformanceGrader *)

\* the threshold table of a distance class: upper bounds of A+, A, B, C (ms)
Table(distance) ==
    CASE distance = "same-region" -> <<2, 5, 15, 30>>
      [] distance = "regional" -> <<20, 40, 70, 100>>
      [] distance = "cross-country" -> <<50, 70, 100, 150>>

\* position of a grade, best first
Rank(grade) ==
    CASE grade = "A+" -> 0 [] grade = "A" -> 1 [] grade = "B" -> 2
      [] grade = "C" -> 3 [] grade = "D" -> 4

\* C19: for each of the three distance classes grade_latency returns the
\* grade of the class's table with exclusive upper bounds: A+ below the
\* first bound, A, B, C from one bound up to but not including the next, D
\* from the last bound on; so 1.9 ms same-region is A+ and 2.0 ms is A; and
\* of two calls for the same class the one with the larger latency never
\* gets the better grade.
C19_GradeLatency ==
    (graded.fn = "grade_latency"
        /\ graded.args[2] \in {"same-region", "regional", "cross-country"}) =>
        LET latency_ms == graded.args[1]
            distance == graded.args[2]
            bound == Table(distance)
            grade == graded.result[1]
        IN  /\ grade \in {"A+", "A", "B", "C", "D"}
            /\ grade = "A+" <=> latency_ms < bound[1] * Scale
            /\ grade = "A" <=> (bound[1] * Scale <= latency_ms /\ latency_ms < bound[2] * Scale)
            /\ grade = "B" <=> (bound[2] * Scale <= latency_ms /\ latency_ms < bound[3] * Scale)
            /\ grade = "C" <=> (bound[3] * Scale <= latency_ms /\ latency_ms < bound[4] * Scale)
            /\ grade = "D" <=> bound[4] * Scale <= latency_ms
            /\ (distance = "same-region" /\ latency_ms * 10 = 19 * Scale) => grade = "A+"
            /\ (distance = "same-region" /\ latency_ms = 2 * Scale) => grade = "A"
            /\ ( /\ graded_before.fn = "grade_latency"
                 /\ graded_before.args[2] = distance
                 /\ graded_before.args[1] <= latency_ms )
                    => Rank(graded_before.result[1]) <= Rank(grade)

\* 1.9 ms same-region was graded A+ and then 2.0 ms same-region A
C19_Witness ==
    /\ graded_before.fn = "grade_latency"
    /\ graded_before.args = <<2 * Scale - 1, "same-region">>
    /\ graded_before.result[1] = "A+"
    /\ graded.fn = "grade_latency"
    /\ graded.args = <<2 * Scale, "same-region">>
    /\ graded.result[1] = "A"

\* C20: a negative or out-of-range argument gets the worst bucket:
\* grade_latency returns D for a negative latency in every distance class,
\* grade_packet_loss the highest severity for a negative loss and for a loss
\* above 100, grade_jitter the highest severity for a negative stddev.
C20_WorstBucketOutOfRange ==
    /\ (graded.fn = "grade_latency" /\ graded.args[1] < 0) => graded.result[1] = "D"
    /\ (graded.fn = "grade_packet_loss"
            /\ (graded.args[1] < 0 \/ graded.args[1] > 100 * Scale))
        => graded.result = <<"cross_mark", "red">>
    /\ (graded.fn = "grade_jitter" /\ graded.args[1] < 0)
        => graded.result = <<"cross_mark", "red">>

----------------------------------------------------------------------------
(* parse_ping_output (src/src/cnf/tests/latency.py).  The output string is *)
(* modelled by what the two regular expressions find in it: the summary    *)
(* line with its two packet counts, and the rtt line with its four values  *)
(* (in units of 1/Scale ms).  The loss percentage is kept as the exact     *)
(* fraction num / den.                                                     *)

\* no "N packets transmitted, M ... received" line
NoSummary == [matched |-> FALSE, sent |-> 0, received |-> 0]

\* the summary lines: any two counts; ping reports more packets received
\* than transmitted when replies are duplicated
SummaryLines ==
    {NoSummary}
    \cup {[matched |-> TRUE, sent |-> s, received |-> r] :
            s \in 0..MaxPackets, r \in 0..(MaxPackets + 1)}

\* no "rtt min/avg/max/mdev = ..." line
NoRtt == [matched |-> FALSE, min |-> 0, avg |-> 0, max |-> 0, stddev |-> 0]

RttLines ==
    {NoRtt, [matched |-> TRUE, min |-> 1 * Scale, avg |-> 2 * Scale, max |-> 3 * Scale,
             stddev |-> Scale \div 2]}

PingOutputs == {[summary |-> s, rtt |-> r] : s \in SummaryLines, r \in RttLines}

\* the stats dict as the function first builds it
NewStats ==
    [packets_sent |-> 0, packets_received |-> 0,
     packet_loss_pct |-> [num |-> 100, den |-> 1],
     min_ms |-> None, avg_ms |-> None, max_ms |-> None, stddev_ms |-> None]

\* ((packets_sent - packets_received) / packets_sent) * 100
PacketLossPct(packets_sent, packets_received) ==
    [num |-> (packets_sent - packets_received) * 100, den |-> packets_sent]

parse_ping_output(output) ==
    LET counted ==
            IF output.summary.matched
            THEN [NewStats EXCEPT
                    !.packets_sent = output.summary.sent,
                    !.packets_received = output.summary.received,
                    !.packet_loss_pct =
                        IF output.summary.sent > 0
                        THEN PacketLossPct(output.summary.sent, output.summary.received)
                        ELSE @]
            ELSE NewStats
    IN  IF output.rtt.matched
        THEN [counted EXCEPT
                !.min_ms = Num(output.rtt.min), !.avg_ms = Num(output.rtt.avg),
                !.max_ms = Num(output.rtt.max), !.stddev_ms = Num(output.rtt.stddev)]
        ELSE counted

\* one call of parse_ping_output
ParsePingOutput ==
    /\ pc = "parse_ping"
    /\ \E output \in PingOutputs :
        /\ ping_output' = output
        /\ ping_stats' = parse_ping_output(output)
    /\ pc' = "parsed_ping"
    /\ UNCHANGED <<error, analysisVars, phaseVars, mtrVars, graderVars, unitVars,
                   summaryVars, metricsVars, httpVars>>

----------------------------------------------------------------------------
(* Properties of parse_ping_output *)

\* C21 as stated: packet_loss_pct is (sent - received) / sent * 100 when
\* sent > 0 and 0 when sent = 0, also when no summary line is found; for
\* received <= sent it lies in [0, 100].
C21_PacketLossPct ==
    pc = "parsed_ping" =>
        LET sent == ping_stats.packets_sent
            received == ping_stats.packets_received
            loss == ping_stats.packet_loss_pct
        IN  /\ loss.den > 0
            /\ IF sent > 0
               THEN loss.num * sent = (sent - received) * 100 * loss.den
               ELSE loss.num = 0
            /\ received <= sent => (0 <= loss.num /\ loss.num <= 100 * loss.den)

----------------------------------------------------------------------------
(* comprehensive_target_test and comprehensive_multi_target_test            *)
(* (tests/comprehensive.py) with the PacketCapture they use                 *)
(* (tests/packet_capture.py).  A unit is one call of                        *)
(* comprehensive_target_test.  Every branch of the unit calls               *)
(* ping_test(host, target_ip, ping_count) first; ping_test, imported from   *)
(* tests/latency.py, is declared ping_test(target, count=4), so the call    *)
(* raises TypeError before any ping is sent.  The statements after the call *)
(* (run_mtr_test, comprehensive_http_get, stop_capture, analyze_full,       *)
(* _generate_combined_metrics) are never reached and have no action here.   *)
(* Units of a concurrent run interleave where the code awaits.              *)

\* the target configurations: one with an IP only, one with a URL as well
\* ("" is a target without a URL)
Targets ==
    {[ip |-> "192.0.2.1", url |-> ""],
     [ip |-> "192.0.2.2", url |-> "https://example.com/"]}

TargetLists(n) == UNION {[1..m -> Targets] : m \in 0..n}

\* PacketCapture.__init__: no capture file yet
NoCaptureFile == <<>>

\* the result dict a unit starts with
NewResult(target) ==
    [target |-> [ip |-> target.ip, url |-> target.url, name |-> target.ip],
     tests |-> <<>>,
     status |-> "unknown",
     error |-> "none"]

\* a unit whose coroutine has been created and has not run yet
NewUnit(target) ==
    [pc |-> "new",
     capture_file |-> NoCaptureFile,
     ssh |-> "none",
     capture_start |-> "none",
     steps |-> <<>>,
     result |-> NewResult(target)]

\* the gather of another scheduler: the results in the order of completion
gather_AsCompleted(tasks, order) == [i \in 1..Len(order) |-> tasks[order[i]].result]

\* asyncio.gather: the results in the order of the awaitables passed
gather(tasks, order) == [i \in 1..Len(tasks) |-> tasks[i].result]

\* start_capture: the file name has the time to the second and the target
CaptureFile(timestamp, target_ip) == <<timestamp, target_ip>>

\* pgrep -f 'tcpdump.*<capture_file>' prints a process id
Pgrep(capture_file) == \E p \in processes : p.file = capture_file

\* a unit may take its first step: the units of a gather start one after
\* the other before any of them resumes, the units of the sequential loop
\* start after the one before has been appended
MayBegin(i) ==
    /\ i \in DOMAIN units
    /\ units[i].pc = "new"
    /\ \A j \in 1..(i - 1) : units[j].pc # "new"
    /\ ~concurrent => Len(all_results) = i - 1 \/ call = "comprehensive_target_test"

\* a unit that awaited may resume: in a gather only after every unit started
MayResume(i) ==
    /\ i \in DOMAIN units
    /\ concurrent => \A j \in DOMAIN units : units[j].pc # "new"

\* comprehensive_target_test up to its first await: the result dict, and
\* with capture_packets the PacketCapture and the head of start_capture
BeginUnit(i) ==
    /\ pc = "run"
    /\ MayBegin(i)
    /\ units' = [units EXCEPT ![i] =
            IF capture_packets
            THEN [@ EXCEPT !.pc = "connect",
                           !.steps = Append(@, "start_capture"),
                           !.capture_file = CaptureFile(clock, targets[i].ip),
                           !.ssh = "created"]
            ELSE [@ EXCEPT !.pc = "ping"]]
    /\ UNCHANGED <<pc, error, call, targets, concurrent, capture_packets, clock,
                   processes, files, completion, all_results>>
    /\ UNCHANGED <<analysisVars, phaseVars, mtrVars, graderVars, pingVars, summaryVars,
                   metricsVars, httpVars>>

\* start_capture: await self.ssh.connect(); a failure is caught by
\* start_capture and reported as status "error"
Connect(i) ==
    /\ pc = "run"
    /\ MayResume(i)
    /\ units[i].pc = "connect"
    /\ \E connected \in BOOLEAN :
        units' = [units EXCEPT ![i] =
            IF connected
            THEN [@ EXCEPT !.pc = "tcpdump", !.ssh = "connected"]
            ELSE [@ EXCEPT !.pc = "ping", !.capture_start = "error"]]
    /\ UNCHANGED <<pc, error, call, targets, concurrent, capture_packets, clock,
                   processes, files, completion, all_results>>
    /\ UNCHANGED <<analysisVars, phaseVars, mtrVars, graderVars, pingVars, summaryVars,
                   metricsVars, httpVars>>

\* start_capture: the tcpdump command line, sent to the background; the
\* process comes up and opens its file, or it does not
StartTcpdump(i) ==
    /\ pc = "run"
    /\ MayResume(i)
    /\ units[i].pc = "tcpdump"
    /\ \E up \in BOOLEAN :
        /\ processes' = IF up
                        THEN processes \cup {[owner |-> i, file |-> units[i].capture_file]}
                        ELSE processes
        /\ files' = IF up THEN files \cup {units[i].capture_file} ELSE files
    /\ units' = [units EXCEPT ![i].pc = "pgrep"]
    /\ UNCHANGED <<pc, error, call, targets, concurrent, capture_packets, clock,
                   completion, all_results>>
    /\ UNCHANGED <<analysisVars, phaseVars, mtrVars, graderVars, pingVars, summaryVars,
                   metricsVars, httpVars>>

\* start_capture: the pgrep and the status it gives; with "capturing" the
\* unit then sleeps a second
FindTcpdump(i) ==
    /\ pc = "run"
    /\ MayResume(i)
    /\ units[i].pc = "pgrep"
    /\ units' = [units EXCEPT ![i] =
            [@ EXCEPT !.pc = "ping",
                      !.capture_start = IF Pgrep(units[i].capture_file)
                                        THEN "capturing" ELSE "failed"]]
    /\ UNCHANGED <<pc, error, call, targets, concurrent, capture_packets, clock,
                   processes, files, completion, all_results>>
    /\ UNCHANGED <<analysisVars, phaseVars, mtrVars, graderVars, pingVars, summaryVars,
                   metricsVars, httpVars>>

\* the call ping_test(host, target_ip, ping_count) of each branch: three
\* positional arguments for a function of two, TypeError; under the
\* async with it leaves through __aexit__
PingTest(i) ==
    /\ pc = "run"
    /\ MayResume(i)
    /\ units[i].pc = "ping"
    /\ units' = [units EXCEPT ![i] =
            [@ EXCEPT !.pc = IF capture_packets THEN "exit" ELSE "except",
                      !.steps = Append(@, "ping_test"),
                      !.result = [@ EXCEPT !.error = "TypeError"]]]
    /\ UNCHANGED <<pc, error, call, targets, concurrent, capture_packets, clock,
                   processes, files, completion, all_results>>
    /\ UNCHANGED <<analysisVars, phaseVars, mtrVars, graderVars, pingVars, summaryVars,
                   metricsVars, httpVars>>

\* PacketCapture.__aexit__: cleanup removes the capture file when there is
\* a file name and an ssh client (without a connection the rm fails and the
\* failure is swallowed), then the ssh client is closed
ExitCapture(i) ==
    /\ pc = "run"
    /\ MayResume(i)
    /\ units[i].pc = "exit"
    /\ files' = IF /\ units[i].capture_file # NoCaptureFile
                   /\ units[i].ssh = "connected"
                THEN files \ {units[i].capture_file}
                ELSE files
    /\ units' = [units EXCEPT ![i] =
            [@ EXCEPT !.pc = "except",
                      !.steps = Append(@, "cleanup"),
                      !.ssh = "closed"]]
    /\ UNCHANGED <<pc, error, call, targets, concurrent, capture_packets, clock,
                   processes, completion, all_results>>
    /\ UNCHANGED <<analysisVars, phaseVars, mtrVars, graderVars, pingVars, summaryVars,
                   metricsVars, httpVars>>

\* comprehensive_target_test: except Exception, status "error", return
ReturnUnit(i) ==
    /\ pc = "run"
    /\ MayResume(i)
    /\ units[i].pc = "except"
    /\ units' = [units EXCEPT ![i] =
            [@ EXCEPT !.pc = "returned",
                      !.result = [@ EXCEPT !.status = "error"]]]
    /\ completion' = Append(completion, i)
    /\ pc' = IF call = "comprehensive_target_test" THEN "returned" ELSE pc
    /\ UNCHANGED <<error, call, targets, concurrent, capture_packets, clock,
                   processes, files, all_results>>
    /\ UNCHANGED <<analysisVars, phaseVars, mtrVars, graderVars, pingVars, summaryVars,
                   metricsVars, httpVars>>

\* comprehensive_multi_target_test, concurrent: the gather returns when
\* every unit has returned; no unit raised, nothing to convert
Gather ==
    /\ pc = "run"
    /\ call = "comprehensive_multi_target_test"
    /\ concurrent
    /\ \A i \in DOMAIN units : units[i].pc = "returned"
    /\ all_results' = gather(units, completion)
    /\ pc' = "returned"
    /\ UNCHANGED <<error, call, targets, concurrent, capture_packets, clock,
                   units, processes, files, completion>>
    /\ UNCHANGED <<analysisVars, phaseVars, mtrVars, graderVars, pingVars, summaryVars,
                   metricsVars, httpVars>>

\* comprehensive_multi_target_test, sequential: results.append(result) and
\* the sleep of two seconds
AppendResult ==
    /\ pc = "run"
    /\ call = "comprehensive_multi_target_test"
    /\ ~concurrent
    /\ Len(all_results) < Len(targets)
    /\ units[Len(all_results) + 1].pc = "returned"
    /\ all_results' = Append(all_results, units[Len(all_results) + 1].result)
    /\ clock' = clock + 2
    /\ UNCHANGED <<pc, error, call, targets, concurrent, capture_packets,
                   units, processes, files, completion>>
    /\ UNCHANGED <<analysisVars, phaseVars, mtrVars, graderVars, pingVars, summaryVars,
                   metricsVars, httpVars>>

\* comprehensive_multi_target_test, sequential: return results
ReturnResults ==
    /\ pc = "run"
    /\ call = "comprehensive_multi_target_test"
    /\ ~concurrent
    /\ Len(all_results) = Len(targets)
    /\ pc' = "returned"
    /\ UNCHANGED <<error, unitVars>>
    /\ UNCHANGED <<analysisVars, phaseVars, mtrVars, graderVars, pingVars, summaryVars,
                   metricsVars, httpVars>>

\* a second passes on the probe host while a call is running
Tick ==
    /\ pc = "run"
    /\ clock < MaxClock
    /\ clock' = clock + 1
    /\ UNCHANGED <<pc, error, call, targets, concurrent, capture_packets,
                   units, processes, files, completion, all_results>>
    /\ UNCHANGED <<analysisVars, phaseVars, mtrVars, graderVars, pingVars, summaryVars,
                   metricsVars, httpVars>>

----------------------------------------------------------------------------
(* Properties of the comprehensive tests *)

\* the steps a unit is to run after start_capture, in order
StepsInOrder(unit) ==
    <<"ping_test", "run_mtr_test">>
    \o (IF unit.result.target.url # "" THEN <<"comprehensive_http_get">> ELSE <<>>)
    \o (IF unit.capture_start = "capturing" THEN <<"stop_capture">> ELSE <<>>)

\* the steps of a unit that returned a value, in the order they returned
StepsCompleted(unit) == unit.result.tests

Capturing(j) ==
    /\ j \in DOMAIN units
    /\ units[j].pc \in {"pgrep", "ping", "exit"}
    /\ \E p \in processes : p.owner = j

\* C23 as stated: concurrent units share no state, no unit stops or deletes
\* the capture of another running unit, also with the same target IP in
\* the same second: the capture file of a unit with a capture under way is
\* on the probe host until the unit itself removes it.
C23_NoSharedCapture ==
    \A j \in DOMAIN units :
        Capturing(j) => units[j].capture_file \in files

\* C28 as stated: when start_capture reported "capturing", stop_capture has
\* been invoked before the unit returns, on every path, and no capture
\* process the unit started is left running.
C28_StopBeforeReturn ==
    \A i \in DOMAIN units :
        (units[i].pc = "returned" /\ units[i].capture_start = "capturing") =>
            /\ \E n \in 1..Len(units[i].steps) : units[i].steps[n] = "stop_capture"
            /\ \A p \in processes : p.owner # i

\* C29: comprehensive_multi_target_test returns one result per target and
\* result i is the one of targets[i], sequential or concurrent, whatever
\* the order the units complete in; a unit that raised is an "error" record
\* at its own index.
C29_OneResultPerTarget ==
    (pc = "returned" /\ call = "comprehensive_multi_target_test") =>
        /\ Len(all_results) = Len(targets)
        /\ \A i \in 1..Len(targets) :
            /\ all_results[i].target.ip = targets[i].ip
            /\ all_results[i].target.url = targets[i].url
            /\ units[i].result.error # "none" => all_results[i].status = "error"

\* a concurrent call has returned whose second unit, for another target,
\* completed before the first
C29_OutOfOrderCompletion ==
    /\ pc = "returned"
    /\ call = "comprehensive_multi_target_test"
    /\ concurrent
    /\ Len(targets) = 2
    /\ targets[1] # targets[2]
    /\ completion = <<2, 1>>
    /\ all_results[1].status = "error"

----------------------------------------------------------------------------
(* _generate_mtr_summary (tests/mtr.py).  avg_ms is in whole milliseconds   *)
(* and loss_pct in whole percent.  The summary's path_quality, which        *)
(* _assess_path_quality computes from the same hops without indexing, is    *)
(* left out.                                                                *)

\* a latency spike is an increase of more than this many ms
SPIKE_MS == 20

\* a hop loses too many packets above this percentage
HIGH_LOSS_PCT == 5

\* the hop lists with strictly increasing hop numbers: numbers may be
\* skipped and the first need not be 1; avg_ms 10 or 40, loss_pct 0 or 6
SummaryHopLists ==
    UNION {{[k \in 1..n |-> [hop |-> number[k], avg_ms |-> avg[k], loss_pct |-> loss[k]]] :
                number \in {f \in [1..n -> 1..(MaxHops + 1)] :
                                \A k \in 1..(n - 1) : f[k] < f[k + 1]},
                avg \in [1..n -> {10, 40}],
                loss \in [1..n -> {0, 6}]} : n \in 0..MaxHops}

\* hops[hop["hop"] - 2] of a Python list: the element at that 0-based
\* index, here position hop - 1, and IndexError beyond the end
PrevHopIndex(hop) == hop.hop - 1

\* the entries the loop body appends for the k-th hop
HopIssues(hops, k) ==
    LET hop == hops[k]
        prev_hop == hops[PrevHopIndex(hop)]
    IN  (IF hop.loss_pct > HIGH_LOSS_PCT
         THEN <<[hop |-> hop.hop, issue |-> "high_packet_loss",
                 value |-> hop.loss_pct]>>
         ELSE <<>>)
        \o
        (IF hop.hop > 1 /\ hop.avg_ms - prev_hop.avg_ms > SPIKE_MS
         THEN <<[hop |-> hop.hop, issue |-> "latency_spike",
                 value |-> hop.avg_ms - prev_hop.avg_ms]>>
         ELSE <<>>)

\* the loop reaches a hop whose number points beyond the end of the list
RaisesIndexError(hops) ==
    \E k \in 1..Len(hops) : hops[k].hop > 1 /\ PrevHopIndex(hops[k]) > Len(hops)

RECURSIVE ProblematicHops(_, _)
\* problematic_hops after the first n hops of the loop
ProblematicHops(hops, n) ==
    IF n = 0 THEN <<>> ELSE ProblematicHops(hops, n - 1) \o HopIssues(hops, n)

\* the dict _generate_mtr_summary returns, {} for no hops
MtrSummary(hops) ==
    IF hops = <<>>
    THEN [empty |-> TRUE, total_hops |-> 0, final_hop |-> 0, problematic_hops |-> <<>>]
    ELSE [empty |-> FALSE,
          total_hops |-> Len(hops),
          final_hop |-> hops[Len(hops)].hop,
          problematic_hops |-> ProblematicHops(hops, Len(hops))]

\* one call of _generate_mtr_summary
GenerateMtrSummary ==
    /\ pc = "summarize"
    /\ \E hops \in SummaryHopLists :
        /\ summary_hops' = hops
        /\ IF RaisesIndexError(hops)
           THEN /\ pc' = "raised"
                /\ error' = "IndexError"
                /\ UNCHANGED mtr_summary
           ELSE /\ pc' = "summarized"
                /\ mtr_summary' = MtrSummary(hops)
                /\ UNCHANGED error
    /\ UNCHANGED <<analysisVars, phaseVars, mtrVars, graderVars, pingVars, unitVars,
                   metricsVars, httpVars>>

----------------------------------------------------------------------------
(* Properties of _generate_mtr_summary *)

\* the hop numbers of the latency_spike entries, in order
SpikesReported ==
    LET spikes == SelectSeq(mtr_summary.problematic_hops,
                            LAMBDA e : e.issue = "latency_spike")
    IN  [k \in 1..Len(spikes) |-> spikes[k].hop]

\* the positions whose avg_ms exceeds that of the position before by more
\* than SPIKE_MS
SpikePositions(hops) ==
    {k \in 2..Len(hops) : hops[k].avg_ms - hops[k - 1].avg_ms > SPIKE_MS}

\* C25 as stated: _generate_mtr_summary compares each hop's avg_ms with the
\* hop immediately before it in the sequence and completes without failing
\* for every hop list with strictly increasing hop numbers, with gaps or
\* not starting at 1.
C25_SpikeAgainstPrevious ==
    /\ pc # "raised"
    /\ pc = "summarized" =>
        {SpikesReported[k] : k \in DOMAIN SpikesReported}
            = {summary_hops[k].hop : k \in SpikePositions(summary_hops)}

----------------------------------------------------------------------------
(* _generate_combined_metrics (tests/comprehensive.py).  avg_ms is in whole *)
(* milliseconds, packet_loss_pct in tenths of a percent; an issue is kept   *)
(* as its type.                                                             *)

\* tests["ping"]: not successful, or successful with the values on both
\* sides of every threshold
MetricPings ==
    {[success |-> FALSE, avg_ms |-> 0, packet_loss_pct |-> 0]}
    \cup {[success |-> TRUE, avg_ms |-> a, packet_loss_pct |-> l] :
            a \in {19, 20, 49, 50}, l \in {0, 5, 10, 60}}

\* tests["mtr"]: not successful, or successful with the path quality of
\* _assess_path_quality and a number of problematic hops
MetricMtrs ==
    {[status |-> "error", path_quality |-> "unknown", problematic_hops |-> 0]}
    \cup {[status |-> "success", path_quality |-> q, problematic_hops |-> n] :
            q \in {"poor", "fair", "unstable", "excellent", "good", "acceptable"},
            n \in 0..MaxIssues}

\* packet_analysis: None or not successful, or successful with the score of
\* _calculate_quality_score and a number of detected issues
MetricPacketAnalyses ==
    {[status |-> "none", quality_score |-> "unknown", issues_detected |-> 0]}
    \cup {[status |-> "success", quality_score |-> q, issues_detected |-> n] :
            q \in {"unknown", "excellent", "good", "fair", "poor"},
            n \in 0..MaxIssues}

MetricResults ==
    {[ping |-> p, mtr |-> m, packet_analysis |-> a] :
        p \in MetricPings, m \in MetricMtrs, a \in MetricPacketAnalyses}

\* the latency_quality chain of a successful ping
LatencyQuality(ping) ==
    IF ping.packet_loss_pct = 0 /\ ping.avg_ms < 20 THEN "excellent"
    ELSE IF ping.packet_loss_pct = 0 /\ ping.avg_ms < 50 THEN "good"
    ELSE IF ping.packet_loss_pct < 10 THEN "fair"
    ELSE "poor"

\* n times the issue
Repeat(issue, n) == [k \in 1..n |-> issue]

\* a health chain whose issue counts start one lower
OverallHealth_Inclusive(qualities, issues) ==
    LET said == {qualities[k] : k \in 1..3}
    IN  IF "poor" \in said \/ Len(issues) >= 3 THEN "poor"
        ELSE IF "fair" \in said \/ Len(issues) >= 1 THEN "fair"
        ELSE IF "good" \in said THEN "good"
        ELSE IF said \subseteq {"excellent", "unknown"} THEN "excellent"
        ELSE "good"

\* Determine overall health
OverallHealth(qualities, issues) ==
    LET said == {qualities[k] : k \in 1..3}
    IN  IF "poor" \in said \/ Len(issues) > 3 THEN "poor"
        ELSE IF "fair" \in said \/ Len(issues) > 1 THEN "fair"
        ELSE IF "good" \in said THEN "good"
        ELSE IF said \subseteq {"excellent", "unknown"} THEN "excellent"
        ELSE "good"

\* the metrics dict _generate_combined_metrics returns
CombinedMetrics(result) ==
    LET latency_quality ==
            IF result.ping.success THEN LatencyQuality(result.ping) ELSE "unknown"
        path_quality ==
            IF result.mtr.status = "success" THEN result.mtr.path_quality ELSE "unknown"
        connection_quality ==
            IF result.packet_analysis.status = "success"
            THEN result.packet_analysis.quality_score ELSE "unknown"
        issues ==
            (IF latency_quality = "poor" THEN <<"packet_loss">> ELSE <<>>)
            \o (IF result.mtr.status = "success"
                THEN Repeat("mtr", result.mtr.problematic_hops) ELSE <<>>)
            \o (IF result.packet_analysis.status = "success"
                THEN Repeat("packet", result.packet_analysis.issues_detected) ELSE <<>>)
    IN  [overall_health |->
            OverallHealth(<<latency_quality, path_quality, connection_quality>>, issues),
         latency_quality |-> latency_quality,
         path_quality |-> path_quality,
         connection_quality |-> connection_quality,
         issues |-> issues]

\* the metrics dict before the function has run
NewMetrics ==
    [overall_health |-> "unknown", latency_quality |-> "unknown",
     path_quality |-> "unknown", connection_quality |-> "unknown", issues |-> <<>>]

\* one call of _generate_combined_metrics
GenerateCombinedMetrics ==
    /\ pc = "combine"
    /\ \E result \in MetricResults :
        /\ metrics_input' = result
        /\ metrics' = CombinedMetrics(result)
    /\ pc' = "combined"
    /\ UNCHANGED <<error, analysisVars, phaseVars, mtrVars, graderVars, pingVars,
                   unitVars, summaryVars, httpVars>>

----------------------------------------------------------------------------
(* Properties of _generate_combined_metrics *)

\* the three qualities of the returned metrics
MetricQualities ==
    {metrics.latency_quality, metrics.path_quality, metrics.connection_quality}

\* C26: overall_health follows the first-match precedence: poor with a
\* 'poor' quality or more than 3 issues; else fair with a 'fair' quality
\* or more than 1 issue; else good with a 'good' quality; else excellent
\* when every quality is 'excellent' or 'unknown'; else good.  It is never
\* 'unknown' on return and 'excellent' when nothing succeeded and no issue
\* was found.
C26_OverallHealth ==
    pc = "combined" =>
        LET n == Len(metrics.issues)
            poor == "poor" \in MetricQualities \/ n > 3
            fair == "fair" \in MetricQualities \/ n > 1
            good == "good" \in MetricQualities
            fine == MetricQualities \subseteq {"excellent", "unknown"}
        IN  /\ poor => metrics.overall_health = "poor"
            /\ (~poor /\ fair) => metrics.overall_health = "fair"
            /\ (~poor /\ ~fair /\ good) => metrics.overall_health = "good"
            /\ (~poor /\ ~fair /\ ~good /\ fine) => metrics.overall_health = "excellent"
            /\ (~poor /\ ~fair /\ ~good /\ ~fine) => metrics.overall_health = "good"
            /\ metrics.overall_health # "unknown"
            /\ (MetricQualities = {"unknown"} /\ n = 0) =>
                    metrics.overall_health = "excellent"

\* excellent qualities with exactly three issues: fair by the issue count,
\* not yet poor
C26_Witness ==
    /\ pc = "combined"
    /\ MetricQualities = {"excellent"}
    /\ Len(metrics.issues) = 3
    /\ metrics.overall_health = "fair"

----------------------------------------------------------------------------
(* run_http_tests (tests/http.py) for one target with samples = 1: the      *)
(* retry loop around http_test_remote and the result it reports.            *)

\* what one http_test_remote call returns: success with a status code, or
\* a failure with its error
HttpOutcomes ==
    {[success |-> TRUE, status_code |-> c, error |-> "none"] : c \in {200, 404}}
    \cup {[success |-> FALSE, status_code |-> 0, error |-> e] :
            e \in {"timeout", "connection refused"}}

\* the requests issued so far
Requests == SelectSeq(http_log, LAMBDA e : e.kind = "request")

\* one pass of `for attempt in range(retries + 1)`: the request, then the
\* break on success, or the error kept and the sleep before a retry
HttpAttempt ==
    /\ pc = "http_loop"
    /\ LET attempt == Len(Requests)
       IN  \E result \in HttpOutcomes :
            LET request == [kind |-> "request", attempt |-> attempt,
                            success |-> result.success]
                sleep == [kind |-> "sleep", attempt |-> attempt, success |-> FALSE]
            IN  IF result.success
                THEN /\ http_log' = Append(http_log, request)
                     /\ http_test_result' =
                            [success |-> TRUE,
                             status_code |-> result.status_code,
                             error |-> "none",
                             warning |-> /\ http_target.expected_status # {}
                                         /\ result.status_code \notin http_target.expected_status,
                             attempts |-> 0]
                     /\ pc' = "http_report"
                ELSE /\ http_log' = IF attempt < http_target.retries
                                    THEN http_log \o <<request, sleep>>
                                    ELSE Append(http_log, request)
                     /\ http_test_result' = [http_test_result EXCEPT !.error = result.error]
                     /\ pc' = IF attempt < http_target.retries
                              THEN "http_loop" ELSE "http_report"
    /\ UNCHANGED <<error, http_target>>
    /\ UNCHANGED <<analysisVars, phaseVars, mtrVars, graderVars, pingVars, unitVars,
                   summaryVars, metricsVars>>

\* after the loop: the failure record when no request succeeded, then the
\* attempts field and the append to results
HttpReport ==
    /\ pc = "http_report"
    /\ http_test_result' =
            [http_test_result EXCEPT !.attempts = http_target.retries + 1]
    /\ pc' = "http_done"
    /\ UNCHANGED <<error, http_target, http_log>>
    /\ UNCHANGED <<analysisVars, phaseVars, mtrVars, graderVars, pingVars, unitVars,
                   summaryVars, metricsVars>>

----------------------------------------------------------------------------
(* Properties of run_http_tests *)

\* C30 as stated: for a single-sample target with retries = r at most
\* r + 1 requests are issued, none after the first successful one, a wait
\* happens only when another attempt follows, and the reported 'attempts'
\* is the number of requests actually issued.
C30_AttemptsIssued ==
    /\ Len(Requests) <= http_target.retries + 1
    /\ \A n \in 1..Len(http_log) :
        (http_log[n].kind = "request" /\ http_log[n].success) => n = Len(http_log)
    /\ pc \in {"http_report", "http_done"} =>
        \A n \in 1..Len(http_log) :
            http_log[n].kind = "sleep" =>
                (n < Len(http_log) /\ http_log[n + 1].kind = "request")
    /\ pc = "http_done" => http_test_result.attempts = Len(Requests)

----------------------------------------------------------------------------
(* Specifications *)

AnalysisIdle ==
    /\ ping_result = NoPing
    /\ mtr_result = [present |-> FALSE, status |-> "unknown", path_quality |-> "unknown"]
    /\ http_result = NoHttp
    /\ packet_analysis = NoPacketAnalysis
    /\ tcp_http_correlation = NoCorrelation
    /\ analysis = NewAnalysis

PhasesIdle ==
    /\ http_phases = NoPhases
    /\ tcp_events = <<>>
    /\ processed = 0
    /\ correlation = NewCorrelation(NoPhases)

MtrIdle ==
    /\ mtr_hops = <<>>
    /\ tcp_handshake_ms = 0
    /\ scanned = 0
    /\ mtr_correlation = NewMtrCorrelation(0)

GraderIdle ==
    /\ graded = NoCall
    /\ graded_before = NoCall

PingIdle ==
    /\ ping_output = [summary |-> NoSummary, rtt |-> NoRtt]
    /\ ping_stats = NewStats

UnitsIdle ==
    /\ call = "none"
    /\ targets = <<>>
    /\ concurrent = FALSE
    /\ capture_packets = FALSE
    /\ clock = 0
    /\ units = <<>>
    /\ processes = {}
    /\ files = {}
    /\ completion = <<>>
    /\ all_results = <<>>

\* nothing of the functions modelled after the grader has run
SummaryIdle ==
    /\ summary_hops = <<>>
    /\ mtr_summary = MtrSummary(<<>>)

MetricsIdle ==
    /\ metrics_input = [ping |-> [success |-> FALSE, avg_ms |-> 0, packet_loss_pct |-> 0],
                        mtr |-> [status |-> "error", path_quality |-> "unknown",
                                 problematic_hops |-> 0],
                        packet_analysis |-> [status |-> "none", quality_score |-> "unknown",
                                             issues_detected |-> 0]]
    /\ metrics = NewMetrics

\* test_result = None and last_error = None
NoTestResult ==
    [success |-> FALSE, status_code |-> 0, error |-> "All retries failed",
     warning |-> FALSE, attempts |-> 0]

HttpIdle ==
    /\ http_target = [retries |-> 0, expected_status |-> {200}]
    /\ http_log = <<>>
    /\ http_test_result = NoTestResult

LaterIdle ==
    /\ PingIdle
    /\ UnitsIdle
    /\ SummaryIdle
    /\ MetricsIdle
    /\ HttpIdle

\* one call of generate_layered_analysis
InitAnalysis ==
    /\ pc = "l3"
    /\ error = "none"
    /\ AnalysisIdle
    /\ PhasesIdle
    /\ MtrIdle
    /\ GraderIdle
    /\ LaterIdle

NextAnalysis ==
    \/ AnalyzeL3
    \/ AnalyzeL4
    \/ AnalyzeL7
    \/ CorrelateL3L4
    \/ CorrelateL4L7
    \/ EndToEnd

SpecAnalysis == InitAnalysis /\ [][NextAnalysis]_vars

\* one call of correlate_tcp_to_http_phases
InitPhases ==
    /\ pc = "phases_start"
    /\ error = "none"
    /\ AnalysisIdle
    /\ PhasesIdle
    /\ MtrIdle
    /\ GraderIdle
    /\ LaterIdle

NextPhases ==
    \/ StartCorrelation
    \/ CorrelateEvent
    \/ FinishCorrelation

SpecPhases == InitPhases /\ [][NextPhases]_vars

\* one call of correlate_mtr_to_tcp
InitMtr ==
    /\ pc = "mtr_start"
    /\ error = "none"
    /\ AnalysisIdle
    /\ PhasesIdle
    /\ MtrIdle
    /\ GraderIdle
    /\ LaterIdle

NextMtr ==
    \/ StartMtrCorrelation
    \/ ScanHop
    \/ FinishMtrCorrelation

SpecMtr == InitMtr /\ [][NextMtr]_vars

\* a sequence of PerformanceGrader calls
InitGrader ==
    /\ pc = "grade"
    /\ error = "none"
    /\ AnalysisIdle
    /\ PhasesIdle
    /\ MtrIdle
    /\ GraderIdle
    /\ LaterIdle

NextGrader ==
    \/ GradeLatency
    \/ GradePacketLoss
    \/ GradeJitter

SpecGrader == InitGrader /\ [][NextGrader]_vars

\* one call of parse_ping_output
InitPing ==
    /\ pc = "parse_ping"
    /\ error = "none"
    /\ AnalysisIdle
    /\ PhasesIdle
    /\ MtrIdle
    /\ GraderIdle
    /\ LaterIdle

NextPing == ParsePingOutput

SpecPing == InitPing /\ [][NextPing]_vars

\* one call of comprehensive_target_test, or one call of
\* comprehensive_multi_target_test, which always captures
InitUnits ==
    /\ pc = "run"
    /\ error = "none"
    /\ AnalysisIdle
    /\ PhasesIdle
    /\ MtrIdle
    /\ GraderIdle
    /\ PingIdle
    /\ SummaryIdle
    /\ MetricsIdle
    /\ HttpIdle
    /\ \/ /\ call = "comprehensive_target_test"
          /\ targets \in [1..1 -> Targets]
          /\ concurrent = FALSE
          /\ capture_packets \in BOOLEAN
       \/ /\ call = "comprehensive_multi_target_test"
          /\ targets \in TargetLists(MaxTargets)
          /\ concurrent \in BOOLEAN
          /\ capture_packets = TRUE
    /\ clock = 0
    /\ units = [i \in 1..Len(targets) |-> NewUnit(targets[i])]
    /\ processes = {}
    /\ files = {}
    /\ completion = <<>>
    /\ all_results = <<>>

NextUnits ==
    \/ \E i \in 1..MaxTargets : BeginUnit(i)
    \/ \E i \in 1..MaxTargets : Connect(i)
    \/ \E i \in 1..MaxTargets : StartTcpdump(i)
    \/ \E i \in 1..MaxTargets : FindTcpdump(i)
    \/ \E i \in 1..MaxTargets : PingTest(i)
    \/ \E i \in 1..MaxTargets : ExitCapture(i)
    \/ \E i \in 1..MaxTargets : ReturnUnit(i)
    \/ Gather
    \/ AppendResult
    \/ ReturnResults
    \/ Tick

SpecUnits == InitUnits /\ [][NextUnits]_vars

\* one call of _generate_mtr_summary
InitSummary ==
    /\ pc = "summarize"
    /\ error = "none"
    /\ AnalysisIdle
    /\ PhasesIdle
    /\ MtrIdle
    /\ GraderIdle
    /\ LaterIdle

NextSummary == GenerateMtrSummary

SpecSummary == InitSummary /\ [][NextSummary]_vars

\* one call of _generate_combined_metrics
InitMetrics ==
    /\ pc = "combine"
    /\ error = "none"
    /\ AnalysisIdle
    /\ PhasesIdle
    /\ MtrIdle
    /\ GraderIdle
    /\ LaterIdle

NextMetrics == GenerateCombinedMetrics

SpecMetrics == InitMetrics /\ [][NextMetrics]_vars

\* run_http_tests for one single-sample target
InitHttp ==
    /\ pc = "http_loop"
    /\ error = "none"
    /\ AnalysisIdle
    /\ PhasesIdle
    /\ MtrIdle
    /\ GraderIdle
    /\ PingIdle
    /\ UnitsIdle
    /\ SummaryIdle
    /\ MetricsIdle
    /\ http_target \in {[retries |-> r, expected_status |-> s] :
                            r \in 0..MaxRetries, s \in {{200}, {}}}
    /\ http_log = <<>>
    /\ http_test_result = NoTestResult

NextHttp ==
    \/ HttpAttempt
    \/ HttpReport

SpecHttp == InitHttp /\ [][NextHttp]_vars

====
